---- MODULE Spec2Model ----
(***************************************************************************)
(* Pricing / simulation engine of the conditional-markets viewer (app.js). *)
(*                                                                         *)
(* Numbers.  The program computes in IEEE doubles.  Here every currency,   *)
(* share and reserve quantity is a fixed-point integer counting units of   *)
(* 1/Scale, every probability a fixed-point integer counting units of      *)
(* 1/PScale, and every division or square root rounds to the nearest unit, *)
(* as the floating-point operation rounds to the nearest double.  A        *)
(* "rounding tolerance" below is therefore a number of such units.         *)
(***************************************************************************)
EXTENDS Integers, Sequences, FiniteSets, TLC

\* Resolution of currency / share / reserve quantities: 1 unit = 1/Scale.
Scale == 100

\* Resolution of probabilities: 1 unit = 1/PScale.
PScale == Scale * Scale * Scale

Abs(x) == IF x < 0 THEN 0 - x ELSE x
Min2(a, b) == IF a <= b THEN a ELSE b
Max2(a, b) == IF a >= b THEN a ELSE b

\* a / b rounded to the nearest integer (b > 0), the model of a double division.
RDiv(a, b) == (2 * a + b) \div (2 * b)

\* F applied to the value of v: v is evaluated once and named, as a JavaScript
\* const is.
Bind(v, F(_)) == CHOOSE r \in {F(x) : x \in {v}} : TRUE

\* floor(sqrt(x)) by Newton's iteration from above.
RECURSIVE NewtonSqrt(_, _)
NewtonSqrt(x, r) ==
    Bind((r + x \div r) \div 2,
         LAMBDA r2 : IF r2 >= r THEN r ELSE NewtonSqrt(x, r2))

\* Math.sqrt: the square root rounded to the nearest unit.
Sqrt(x) ==
    IF x <= 0 THEN 0
    ELSE LET f == NewtonSqrt(x, Min2(x, 46340))
         IN IF x - f * f > f THEN f + 1 ELSE f

\* The value Infinity (returned by costForShares on a negative discriminant).
Infinity == 2147483647
isFinite(x) == x # Infinity

(***************************************************************************)
(* State.  Each specification below drives one group of variables and      *)
(* leaves the other groups at their idle value.                            *)
(***************************************************************************)
VARIABLES
    cpPool, cpSide, cpCalls,          \* SpecCpmm: pool, side, last two calls
    mcPools, mcCall, mcLegs,          \* SpecMulti: PoolSet, last call, legs threaded
    coProbs, coPc, coDet, coWeights,  \* SpecCorr: joint probabilities, position in
    coDivisions,                      \*   the solver, determinant, weights, divisions
    marketPools,                      \* SpecCond: marketProbabilities.pools
    currentCondType,                  \*   conditional bet type of the open panel
    currentBetDirection,              \*   "yes" or "no"
    panelBetAmount,                   \*   value of the panel-bet-amount field
    tradePlan,                        \*   what the preview last rendered
    execPlan, execPlaced,             \*   legs of the running execution, bets placed
    hpHeap,                           \* SpecHeap: the PoolSet objects the caller holds
    hpOriginal,                       \*   their contents when the caller got them
    hpLast, hpCalls,                  \*   the last call, the number of calls made
    srPc, srSite,                     \* SpecSearch: position in the searches, call site
    srHi, srDoublings, srI,           \*   multiChoiceCostForShares: hi, doublings, i
    srIter, srBest,                   \*   simulateMultiChoiceTrade: iter, bestResult
    srResult,                         \*   the object returned
    mgPools,                          \* SpecMarginal: marketProbabilities.pools
    currentMarginalType,              \*   marginal bet type of the open panel
    mgBetAmount, mgTradePlan,         \*   panel-bet-amount field, the preview rendered
    mgExec, mgPlaced,                 \*   the running execution, the amounts submitted
    vlPools, vlPanel, vlAmount,       \* SpecValidate: pools, the open panel, amount field
    vlPc, vlLegs,                     \*   position in the validation, the legs to quote
    vlApi, vlStatus,                  \*   the dry-run responses so far, the status shown
    currentMarketConfig,              \* SpecLoad: config of the last requested market
    currentMarket,                    \*   market of the last answered fetch
    marketProbabilities,              \*   parsed snapshot of a market's reserves
    currentCorrelationAnalysis,       \*   analysis kept by the correlation panel
    lmLoads,                          \*   loadMarket calls in progress
    lmServer,                         \*   the server's reserves, per market
    lmLast,                           \*   last validation or execution
    selectedCellType,                 \* SpecPanel: cell of the direct bet panel
    pnOpened,                         \*   kind of the panel opened last and still open
    pnDispatch,                       \*   the last dispatcher that ran, and its choice
    configFetchedMarket,              \* SpecConfig: market fetched in the config dialog
    cdOpen, cdStepMap,                \*   dialog shown, mapping step shown
    cdSelects,                        \*   values of the .config-cell-select elements
    cdLabelA, cdLabelB,               \*   values of the label fields
    cdSaveDisabled,                   \*   disabled property of the Save button
    cdFetches,                        \*   fetches of fetchMarketForConfig in progress
    cdSaved                           \*   what saveConfigAndLoad stored since the dialog opened

cpVars == <<cpPool, cpSide, cpCalls>>
mcVars == <<mcPools, mcCall, mcLegs>>
coVars == <<coProbs, coPc, coDet, coWeights, coDivisions>>
hgVars == <<marketPools, currentCondType, currentBetDirection, panelBetAmount,
            tradePlan, execPlan, execPlaced>>
hpVars == <<hpHeap, hpOriginal, hpLast, hpCalls>>
srVars == <<srPc, srSite, srHi, srDoublings, srI, srIter, srBest, srResult>>
mgVars == <<mgPools, currentMarginalType, mgBetAmount, mgTradePlan, mgExec, mgPlaced>>
vlVars == <<vlPools, vlPanel, vlAmount, vlPc, vlLegs, vlApi, vlStatus>>
lmVars == <<currentMarketConfig, currentMarket, marketProbabilities, currentCorrelationAnalysis, lmLoads, lmServer, lmLast>>
pnVars == <<selectedCellType, pnOpened, pnDispatch>>
cdVars == <<configFetchedMarket, cdOpen, cdStepMap, cdSelects, cdLabelA, cdLabelB, cdSaveDisabled, cdFetches, cdSaved>>
vars == <<cpVars, mcVars, coVars, hgVars, hpVars, srVars, mgVars, vlVars, lmVars, pnVars, cdVars>>

\* The variables a specification does not drive.
CpOthers == <<mcVars, coVars, hgVars, hpVars, srVars, mgVars, vlVars, lmVars, pnVars, cdVars>>
McOthers == <<cpVars, coVars, hgVars, hpVars, srVars, mgVars, vlVars, lmVars, pnVars, cdVars>>
CoOthers == <<cpVars, mcVars, hgVars, hpVars, srVars, mgVars, vlVars, lmVars, pnVars, cdVars>>
HgOthers == <<cpVars, mcVars, coVars, hpVars, srVars, mgVars, vlVars, lmVars, pnVars, cdVars>>
HpOthers == <<cpVars, mcVars, coVars, hgVars, srVars, mgVars, vlVars, lmVars, pnVars, cdVars>>
SrOthers == <<cpVars, mcVars, coVars, hgVars, hpVars, mgVars, vlVars, lmVars, pnVars, cdVars>>
MgOthers == <<cpVars, mcVars, coVars, hgVars, hpVars, srVars, vlVars, lmVars, pnVars, cdVars>>
VlOthers == <<cpVars, mcVars, coVars, hgVars, hpVars, srVars, mgVars, lmVars, pnVars, cdVars>>
LmOthers == <<cpVars, mcVars, coVars, hgVars, hpVars, srVars, mgVars, vlVars, pnVars, cdVars>>
PnOthers == <<cpVars, mcVars, coVars, hgVars, hpVars, srVars, mgVars, vlVars, lmVars, cdVars>>
CdOthers == <<cpVars, mcVars, coVars, hgVars, hpVars, srVars, mgVars, vlVars, lmVars, pnVars>>

CpIdle == cpPool = [y |-> Scale, n |-> Scale] /\ cpSide = "YES" /\ cpCalls = <<>>
McIdle == mcPools = <<>> /\ mcCall = <<>> /\ mcLegs = 0
CoIdle ==
    /\ coProbs = <<>> /\ coPc = "idle" /\ coDet = 0
    /\ coWeights = <<>> /\ coDivisions = 0
HgIdle ==
    /\ marketPools = <<>> /\ currentCondType = "null"
    /\ currentBetDirection = "yes" /\ panelBetAmount = 0
    /\ tradePlan = <<>> /\ execPlan = <<>> /\ execPlaced = 0
HpIdle == hpHeap = <<>> /\ hpOriginal = <<>> /\ hpLast = <<>> /\ hpCalls = 0
SrIdle ==
    /\ srPc = "idle" /\ srSite = "none" /\ srHi = 0 /\ srDoublings = 0 /\ srI = 0
    /\ srIter = 0 /\ srBest = "null" /\ srResult = <<>>
MgIdle ==
    /\ mgPools = <<>> /\ currentMarginalType = "null" /\ mgBetAmount = 0
    /\ mgTradePlan = <<>> /\ mgExec = <<>> /\ mgPlaced = <<>>
VlIdle ==
    /\ vlPools = <<>> /\ vlPanel = <<>> /\ vlAmount = 0 /\ vlPc = "idle"
    /\ vlLegs = <<>> /\ vlApi = <<>> /\ vlStatus = "none"
LmIdle ==
    /\ currentMarketConfig = "null" /\ currentMarket = "null"
    /\ marketProbabilities = <<>> /\ currentCorrelationAnalysis = <<>>
    /\ lmLoads = <<>> /\ lmServer = <<>> /\ lmLast = <<>>
PnIdle ==
    /\ selectedCellType = "null" /\ pnOpened = "none" /\ pnDispatch = <<>>
CdIdle ==
    /\ configFetchedMarket = "null" /\ cdOpen = FALSE /\ cdStepMap = FALSE
    /\ cdSelects = <<>> /\ cdLabelA = "" /\ cdLabelB = ""
    /\ cdSaveDisabled = TRUE /\ cdFetches = {} /\ cdSaved = <<>>

(***************************************************************************)
(* AMM core math (CPMM with p = 0.5)                                       *)
(***************************************************************************)

\* Mutant of sharesForCost: the reserve difference is added with the wrong sign.
sharesForCost_SignSlip(y, n, cost, position) ==
    IF cost <= 0 THEN 0
    ELSE LET kSquared == y * n
         IN IF position = "YES"
            THEN cost - (y - RDiv(kSquared, n + cost))
            ELSE cost - (n - RDiv(kSquared, y + cost))

\* sharesForCost(y, n, cost, position)
sharesForCost(y, n, cost, position) ==
    IF cost <= 0 THEN 0
    ELSE LET kSquared == y * n
         IN IF position = "YES"
            THEN LET nNew == n + cost
                     yNew == RDiv(kSquared, nNew)
                 IN cost + (y - yNew)
            ELSE LET yNew == y + cost
                     nNew == RDiv(kSquared, yNew)
                 IN cost + (n - nNew)

\* Mutant of costForShares: otherPool is the reserve of the side being bought.
costForShares_SameSide(y, n, shares, position) ==
    IF shares <= 0 THEN 0
    ELSE LET otherPool == IF position = "YES" THEN y ELSE n
             discriminant == (y + n - shares) * (y + n - shares)
                               + 4 * shares * otherPool
         IN RDiv(shares - y - n + Sqrt(discriminant), 2)

\* Mutant of costForShares: the shares <= 0 case is not singled out.
costForShares_NoSentinel(y, n, shares, position) ==
    LET otherPool == IF position = "YES" THEN n ELSE y
        discriminant == (y + n - shares) * (y + n - shares) + 4 * shares * otherPool
    IN IF discriminant < 0 THEN Infinity
       ELSE RDiv(shares - y - n + Sqrt(discriminant), 2)

\* costForShares(y, n, shares, position)
costForShares(y, n, shares, position) ==
    IF shares <= 0 THEN 0
    ELSE LET otherPool == IF position = "YES" THEN n ELSE y
             discriminant == (y + n - shares) * (y + n - shares)
                               + 4 * shares * otherPool
         IN IF discriminant < 0 THEN Infinity
            ELSE RDiv(shares - y - n + Sqrt(discriminant), 2)

\* Mutant of poolAfterTrade: the NO branch divides by the old YES reserve.
poolAfterTrade_StaleReserve(y, n, cost, position) ==
    LET kSquared == y * n
    IN IF position = "YES"
       THEN [y |-> RDiv(kSquared, n + cost), n |-> n + cost]
       ELSE [y |-> y + cost, n |-> RDiv(kSquared, y)]

\* Mutant of poolAfterTrade: the reserve of the side bought loses the new
\* reserve of the other side instead of being recomputed from the product.
poolAfterTrade_Subtracts(y, n, cost, position) ==
    IF position = "YES"
    THEN [y |-> y - (n + cost), n |-> n + cost]
    ELSE [y |-> y + cost, n |-> n - (y + cost)]

\* poolAfterTrade(y, n, cost, position)
poolAfterTrade(y, n, cost, position) ==
    LET kSquared == y * n
    IN IF position = "YES"
       THEN LET nNew == n + cost
                yNew == RDiv(kSquared, nNew)
            IN [y |-> yNew, n |-> nNew]
       ELSE LET yNew == y + cost
                nNew == RDiv(kSquared, yNew)
            IN [y |-> yNew, n |-> nNew]

(***************************************************************************)
(* Specification SpecCpmm: the three core functions applied to bounded     *)
(* pools and inputs.  cpCalls records the last two calls made on cpPool;   *)
(* a call takes its argument either from the input set or from the result  *)
(* of the previous call (a round trip).                                    *)
(***************************************************************************)

\* Largest reserve, in whole currency units, of a pool of SpecCpmm.
MaxReserve == 3
\* Reserves grow in steps of ReserveStep whole units.
ReserveStep == 25
\* Largest cost / share argument, in half currency units, of SpecCpmm.
MaxArg == 4

CpReserves == {r * ReserveStep * Scale : r \in 1..MaxReserve}
CpArgs == {(a * Scale) \div 2 : a \in 0..MaxArg} \cup {a * 7 : a \in 1..MaxArg}
Sides == {"YES", "NO"}

CpInit ==
    /\ McIdle /\ CoIdle /\ HgIdle /\ HpIdle /\ SrIdle /\ MgIdle /\ VlIdle /\ LmIdle /\ PnIdle /\ CdIdle
    /\ cpPool \in [y : CpReserves, n : CpReserves]
    /\ cpSide \in Sides
    /\ cpCalls = <<>>

LastTwo(s) == IF Len(s) <= 1 THEN s ELSE <<s[Len(s) - 1], s[Len(s)]>>

CpRecord(op, arg, res, pool, fed) ==
    cpCalls' = LastTwo(Append(cpCalls,
                  [op |-> op, arg |-> arg, res |-> res, pool |-> pool, fed |-> fed]))

SharesForCostCall ==
    /\ \E cost \in CpArgs :
          CpRecord("sharesForCost", cost,
                   sharesForCost(cpPool.y, cpPool.n, cost, cpSide), cpPool, FALSE)
    /\ UNCHANGED <<cpPool, cpSide, CpOthers>>

CostForSharesCall ==
    /\ \E shares \in CpArgs :
          CpRecord("costForShares", shares,
                   costForShares(cpPool.y, cpPool.n, shares, cpSide), cpPool, FALSE)
    /\ UNCHANGED <<cpPool, cpSide, CpOthers>>

\* sharesForCost applied to the cost that costForShares has just returned.
SharesForCostOfResult ==
    /\ cpCalls # <<>>
    /\ cpCalls[Len(cpCalls)].op = "costForShares"
    /\ isFinite(cpCalls[Len(cpCalls)].res)
    /\ CpRecord("sharesForCost", cpCalls[Len(cpCalls)].res,
                sharesForCost(cpPool.y, cpPool.n, cpCalls[Len(cpCalls)].res, cpSide),
                cpPool, TRUE)
    /\ UNCHANGED <<cpPool, cpSide, CpOthers>>

\* costForShares applied to the shares that sharesForCost has just returned.
CostForSharesOfResult ==
    /\ cpCalls # <<>>
    /\ cpCalls[Len(cpCalls)].op = "sharesForCost"
    /\ CpRecord("costForShares", cpCalls[Len(cpCalls)].res,
                costForShares(cpPool.y, cpPool.n, cpCalls[Len(cpCalls)].res, cpSide),
                cpPool, TRUE)
    /\ UNCHANGED <<cpPool, cpSide, CpOthers>>

PoolAfterTradeCall ==
    /\ \E cost \in CpArgs :
          CpRecord("poolAfterTrade", cost,
                   poolAfterTrade(cpPool.y, cpPool.n, cost, cpSide), cpPool, FALSE)
    /\ UNCHANGED <<cpPool, cpSide, CpOthers>>

CpNext ==
    \/ SharesForCostCall
    \/ CostForSharesCall
    \/ SharesForCostOfResult
    \/ CostForSharesOfResult
    \/ PoolAfterTradeCall

SpecCpmm == CpInit /\ [][CpNext]_vars

(***************************************************************************)
(* Claims on the AMM core                                                  *)
(***************************************************************************)
CpLast == cpCalls[Len(cpCalls)]
CpPrev == cpCalls[1]

\* C1: poolAfterTrade preserves the product yesReserve * noReserve of the pool,
\* for every pool with positive reserves, every cost >= 0 and either side, up
\* to the rounding of the recomputed reserve (half a unit of that reserve).
C1_ProductPreserved ==
    \A i \in 1..Len(cpCalls) :
        cpCalls[i].op = "poolAfterTrade" =>
            2 * Abs(cpCalls[i].res.y * cpCalls[i].res.n - cpPool.y * cpPool.n)
                <= Max2(cpCalls[i].res.y, cpCalls[i].res.n)

\* A poolAfterTrade with a positive cost has been applied and moved both reserves.
C1_Witness ==
    /\ cpCalls # <<>>
    /\ CpLast.op = "poolAfterTrade"
    /\ CpLast.arg > 0
    /\ cpSide = "NO"
    /\ CpLast.res.y > cpPool.y
    /\ CpLast.res.n < cpPool.n

\* The round trip of the last two calls: the second call was fed the first's result.
CpRoundTrip(first, second) ==
    /\ Len(cpCalls) = 2
    /\ CpPrev.op = first
    /\ CpLast.op = second
    /\ CpLast.fed

\* Rounding tolerance of a round trip, in units: costForShares rounds its result
\* to a unit, and sharesForCost amplifies that by its slope 1 + y/n (at most
\* 1 + the ratio of the reserves); the inverse direction has slope below 1.
SharesRtTol == 1 + Max2(cpPool.y, cpPool.n) \div Min2(cpPool.y, cpPool.n)
CostRtTol == Scale \div Scale

MonoGap == 2 * SharesRtTol

\* C3: for every pool with positive reserves and either side, sharesForCost is
\* strictly increasing in cost over cost >= 0 and costForShares is strictly
\* increasing in shares over shares >= 0: a larger argument never gives a
\* smaller result, and gives a larger one as soon as the arguments differ by
\* more than the rounding.
C3_Monotone ==
    (/\ Len(cpCalls) = 2
     /\ CpPrev.op = CpLast.op
     /\ CpLast.op \in {"sharesForCost", "costForShares"}) =>
        /\ CpPrev.arg <= CpLast.arg => CpPrev.res <= CpLast.res
        /\ CpPrev.arg >= CpLast.arg => CpPrev.res >= CpLast.res
        /\ CpPrev.arg + MonoGap <= CpLast.arg => CpPrev.res < CpLast.res
        /\ CpPrev.arg >= CpLast.arg + MonoGap => CpPrev.res > CpLast.res

\* Two calls of costForShares with different positive share counts were compared.
C3_Witness ==
    /\ Len(cpCalls) = 2
    /\ CpPrev.op = "costForShares"
    /\ CpLast.op = "costForShares"
    /\ 0 < CpPrev.arg
    /\ CpPrev.arg + MonoGap <= CpLast.arg
    /\ CpPrev.res < CpLast.res
    /\ cpPool.y > cpPool.n

(***************************************************************************)
(* Multi-choice auto-arbitrage simulation                                  *)
(***************************************************************************)
Cells == {"a_yes_b_yes", "a_yes_b_no", "a_no_b_yes", "a_no_b_no"}

\* The thresholds 0.0001 of the simulation are 1 / EpsInv.
EpsInv == 10000

\* probabilityFromPool(y, n) = n / (y + n), in units of 1/PScale; the quotient
\* n * PScale / (y + n) is taken in two long-division steps to stay in 32 bits.
probabilityFromPool(y, n) ==
    LET t == y + n
        a == n * Scale * Scale
    IN (a \div t) * Scale + RDiv((a % t) * Scale, t)

RECURSIVE SumOver(_, _)
SumOver(f, S) ==
    IF S = {} THEN 0
    ELSE LET x == CHOOSE x \in S : TRUE
         IN f[x] + SumOver(f, S \ {x})

\* sumOfProbabilities(pools)
sumOfProbabilities(pools) ==
    SumOver([id \in DOMAIN pools |->
                probabilityFromPool(pools[id].YES, pools[id].NO)], DOMAIN pools)

\* copyPools(pools): the value of the copy (a new object with equal reserves).
copyPools(pools) ==
    [id \in DOMAIN pools |-> [YES |-> pools[id].YES, NO |-> pools[id].NO]]

(***************************************************************************)
(* Objects.  A PoolSet is a JavaScript object: the functions below take    *)
(* and return references.  A heap is the sequence of the PoolSet objects   *)
(* allocated so far and a reference is an index into it; a pool is written *)
(* only by storing a new {YES, NO} object in a slot of a PoolSet, so the   *)
(* slots hold the pools themselves.  The ...Ref operators are the          *)
(* functions as the code runs them; the operators named as the functions   *)
(* give the values they compute for a PoolSet value.                       *)
(***************************************************************************)

\* The order of Object.keys on a PoolSet.
allCells == <<"a_yes_b_yes", "a_yes_b_no", "a_no_b_yes", "a_no_b_no">>

\* Mutant of copyPoolsRef: the PoolSet itself is handed back.
copyPoolsRef_SameObject(heap, pools) == [heap |-> heap, ref |-> pools]

\* copyPools on the heap: a new object is allocated.
copyPoolsRef(heap, pools) ==
    [heap |-> Append(heap, copyPools(heap[pools])), ref |-> Len(heap) + 1]

\* The objects 1..base of heap and the object ref, every other object having
\* become unreachable; ref 0 is null.
Collect(heap, base, ref) ==
    IF ref <= base
    THEN [heap |-> SubSeq(heap, 1, base), ref |-> ref]
    ELSE [heap |-> Append(SubSeq(heap, 1, base), heap[ref]), ref |-> base + 1]

\* The null result of simulateMultiChoiceYesBuy.
Null == [isNull |-> TRUE]

\* simulateMultiChoiceYesBuy(allPools, targetId, betAmount, noShares) on the
\* heap: the result, with newPools a reference, and the heap it leaves.
simulateMultiChoiceYesBuyRef(heap, allPools, targetId, betAmount, noShares) ==
    Bind(copyPoolsRef(heap, allPools), LAMBDA c :
    \* Step 1: cost of noShares NO in each other answer
    Bind([o \in DOMAIN heap[allPools] \ {targetId} |->
            costForShares(c.heap[c.ref][o].YES, c.heap[c.ref][o].NO, noShares, "NO")],
         LAMBDA cost :
    LET answerIds == DOMAIN heap[allPools]
        n == Cardinality(answerIds)
        otherIds == answerIds \ {targetId}
        newPools == c.heap[c.ref]
        \* the other answers the loop has updated when it meets an infinite cost
        reached == {allCells[i] : i \in {j \in DOMAIN allCells :
                        \A k \in 1..j : allCells[k] \in otherIds
                                           => isFinite(cost[allCells[k]])}}
        afterNo == [id \in answerIds |->
                      IF id \in otherIds /\ id \in reached
                      THEN LET updatedPool == poolAfterTrade(newPools[id].YES,
                                                  newPools[id].NO, cost[id], "NO")
                           IN [YES |-> updatedPool.y, NO |-> updatedPool.n]
                      ELSE newPools[id]]
        totalNoCost == SumOver(cost, otherIds)
        \* Step 2: redemption
        redeemedMana == noShares * (n - 2)
        redeemedYesShares == noShares
        netNoCost == totalNoCost - redeemedMana
        \* Step 3: remaining amount for the direct YES purchase
        directYesBudget == betAmount - netNoCost
        direct == directYesBudget * EpsInv > Scale
        targetPool == afterNo[targetId]
    IN IF \E o \in otherIds : ~isFinite(cost[o])
       THEN [heap |-> [c.heap EXCEPT ![c.ref] = afterNo], result |-> Null]
       ELSE IF directYesBudget * EpsInv < 0 - Scale
       THEN [heap |-> [c.heap EXCEPT ![c.ref] = afterNo], result |-> Null]
       ELSE Bind(<<afterNo, directYesBudget>>, LAMBDA v :
            LET directYesShares ==
                    IF direct
                    THEN sharesForCost(v[1][targetId].YES, v[1][targetId].NO, v[2], "YES")
                    ELSE 0
                updatedTarget ==
                    poolAfterTrade(v[1][targetId].YES, v[1][targetId].NO, v[2], "YES")
            IN [heap |-> [c.heap EXCEPT ![c.ref] =
                            IF direct
                            THEN [v[1] EXCEPT ![targetId] =
                                     [YES |-> updatedTarget.y, NO |-> updatedTarget.n]]
                            ELSE v[1]],
                result |-> [isNull |-> FALSE,
                            newPools |-> c.ref,
                            yesShares |-> redeemedYesShares + directYesShares,
                            netNoCost |-> netNoCost,
                            directYesCost |-> Max2(0, v[2]),
                            redeemedYesShares |-> redeemedYesShares,
                            directYesShares |-> directYesShares]])))

\* simulateMultiChoiceYesBuy(allPools, targetId, betAmount, noShares) for a
\* PoolSet value, newPools being the value of the returned PoolSet.
simulateMultiChoiceYesBuy(allPools, targetId, betAmount, noShares) ==
    Bind(simulateMultiChoiceYesBuyRef(<<allPools>>, 1, targetId, betAmount, noShares),
         LAMBDA r :
            IF r.result.isNull THEN Null
            ELSE [r.result EXCEPT !.newPools = r.heap[r.result.newPools]])

\* Iteration caps of the two searches.
NoSharesIterations == 60
CostIterations == 50

\* Math.abs(sumP - 1) < 0.0001
CloseEnough(sumP) == Abs(sumP - PScale) < (PScale + EpsInv - 1) \div EpsInv

\* One iteration of the binary search of simulateMultiChoiceTrade: the heap,
\* the bounds and the best result after it.  best is the bestResult so far
\* (Null: none yet), with its sumP in bestSumP; done is set by the break, and
\* also when mid is the bound the iteration would move, as every later
\* iteration then repeats this one unchanged.
NoSharesIteration(heap, allPools, targetId, cost, lo, hi, best, bestSumP) ==
    Bind((lo + hi) \div 2, LAMBDA mid :
    Bind(simulateMultiChoiceYesBuyRef(heap, allPools, targetId, cost, mid), LAMBDA r :
        IF r.result.isNull
        THEN [heap |-> r.heap, lo |-> lo, hi |-> mid, best |-> best,
              bestSumP |-> bestSumP, done |-> mid = hi]
        ELSE Bind(sumOfProbabilities(r.heap[r.result.newPools]), LAMBDA sumP :
             LET better == best.isNull \/ Abs(sumP - PScale) < Abs(bestSumP - PScale)
                 best2 == IF better THEN r.result ELSE best
                 bestSumP2 == IF better THEN sumP ELSE bestSumP
             IN IF CloseEnough(sumP)
                THEN [heap |-> r.heap, lo |-> lo, hi |-> hi, best |-> best2,
                      bestSumP |-> bestSumP2, done |-> TRUE]
                ELSE IF sumP > PScale
                THEN [heap |-> r.heap, lo |-> mid, hi |-> hi, best |-> best2,
                      bestSumP |-> bestSumP2, done |-> mid = lo]
                ELSE [heap |-> r.heap, lo |-> lo, hi |-> mid, best |-> best2,
                      bestSumP |-> bestSumP2, done |-> mid = hi])))

\* The loop of simulateMultiChoiceTrade from iteration iter on: the heap it
\* leaves and bestResult.
RECURSIVE SearchNoShares(_, _, _, _, _, _, _, _, _)
SearchNoShares(heap, allPools, targetId, cost, lo, hi, best, bestSumP, iter) ==
    IF iter >= NoSharesIterations THEN [heap |-> heap, best |-> best]
    ELSE Bind(NoSharesIteration(heap, allPools, targetId, cost, lo, hi, best, bestSumP),
              LAMBDA s :
                 IF s.done THEN [heap |-> s.heap, best |-> s.best]
                 ELSE SearchNoShares(s.heap, allPools, targetId, cost, s.lo, s.hi,
                                     s.best, s.bestSumP, iter + 1))

\* Mutant of BinaryTrade: the pools of the other answers are rebalanced as well.
BinaryTrade_AllPools(heap, allPools, targetId, cost, position) ==
    LET pool == heap[allPools][targetId]
        shares == sharesForCost(pool.YES, pool.NO, cost, position)
    IN Bind(copyPoolsRef(heap, allPools), LAMBDA c :
          [heap |-> [c.heap EXCEPT ![c.ref] =
                        [id \in DOMAIN c.heap[c.ref] |->
                            LET newPool == poolAfterTrade(c.heap[c.ref][id].YES,
                                                          c.heap[c.ref][id].NO, cost, position)
                            IN [YES |-> newPool.y, NO |-> newPool.n]]],
           newPools |-> c.ref,
           shares |-> shares])

\* The binary-formula result of simulateMultiChoiceTrade (NO trades, fallback).
BinaryTrade(heap, allPools, targetId, cost, position) ==
    LET pool == heap[allPools][targetId]
        shares == sharesForCost(pool.YES, pool.NO, cost, position)
        newPool == poolAfterTrade(pool.YES, pool.NO, cost, position)
    IN Bind(copyPoolsRef(heap, allPools), LAMBDA c :
          [heap |-> [c.heap EXCEPT ![c.ref][targetId] =
                        [YES |-> newPool.y, NO |-> newPool.n]],
           newPools |-> c.ref,
           shares |-> shares])

\* Mutant of simulateMultiChoiceTradeRef: every trade is priced as a NO trade.
simulateMultiChoiceTradeRef_AlwaysNo(heap, allPools, targetId, cost, position) ==
    BinaryTrade(heap, allPools, targetId, cost, "NO")

\* simulateMultiChoiceTrade(allPools, targetId, cost, position) on the heap.  The
\* PoolSets the call allocated and does not return are dropped at the return.
simulateMultiChoiceTradeRef(heap, allPools, targetId, cost, position) ==
    IF position # "YES" THEN BinaryTrade(heap, allPools, targetId, cost, position)
    ELSE Bind(SearchNoShares(heap, allPools, targetId, cost, 0, cost * 2, Null, 0, 0),
              LAMBDA s :
         Bind(IF s.best.isNull
              THEN BinaryTrade(s.heap, allPools, targetId, cost, position)
              ELSE [heap |-> s.heap, newPools |-> s.best.newPools,
                    shares |-> s.best.yesShares],
              LAMBDA t :
         Bind(Collect(t.heap, Len(heap), t.newPools), LAMBDA g :
            [heap |-> g.heap, newPools |-> g.ref, shares |-> t.shares])))

\* simulateMultiChoiceTrade(allPools, targetId, cost, position) for a PoolSet
\* value.
simulateMultiChoiceTrade(allPools, targetId, cost, position) ==
    Bind(simulateMultiChoiceTradeRef(<<allPools>>, 1, targetId, cost, position),
         LAMBDA r : [newPools |-> r.heap[r.newPools], shares |-> r.shares])

\* The upper bound of the expansion loop of multiChoiceCostForShares.
MaxHi == 1000000

\* "Expand hi if needed": the while loop of multiChoiceCostForShares, result
\* being that of the last simulateMultiChoiceTrade.
RECURSIVE ExpandHi(_, _, _, _, _)
ExpandHi(result, allPools, targetId, targetShares, hi) ==
    IF result.shares < targetShares /\ hi < MaxHi * Scale
    THEN Bind(simulateMultiChoiceTradeRef(result.heap, allPools, targetId, hi * 2, "YES"),
              LAMBDA result2 : ExpandHi(result2, allPools, targetId, targetShares, hi * 2))
    ELSE [heap |-> result.heap, hi |-> hi]

\* One iteration of the binary search of multiChoiceCostForShares; done is set
\* when the iteration leaves both bounds unchanged, as every later iteration
\* then repeats it.
CostIteration(heap, allPools, targetId, targetShares, lo, hi) ==
    Bind((lo + hi) \div 2, LAMBDA mid :
    Bind(simulateMultiChoiceTradeRef(heap, allPools, targetId, mid, "YES"), LAMBDA result :
        IF result.shares < targetShares
        THEN [heap |-> result.heap, lo |-> mid, hi |-> hi, done |-> mid = lo]
        ELSE [heap |-> result.heap, lo |-> lo, hi |-> mid, done |-> mid = hi]))

\* The binary search of multiChoiceCostForShares from iteration i on.
RECURSIVE SearchCost(_, _, _, _, _, _, _)
SearchCost(heap, allPools, targetId, targetShares, lo, hi, i) ==
    IF i >= CostIterations THEN [heap |-> heap, lo |-> lo, hi |-> hi]
    ELSE Bind(CostIteration(heap, allPools, targetId, targetShares, lo, hi), LAMBDA s :
            IF s.done THEN [heap |-> s.heap, lo |-> s.lo, hi |-> s.hi]
            ELSE SearchCost(s.heap, allPools, targetId, targetShares, s.lo, s.hi, i + 1))

\* multiChoiceCostForShares(allPools, targetId, targetShares, position) on the
\* heap.  The PoolSets the call allocated and does not return are dropped at
\* the return.
multiChoiceCostForSharesRef(heap, allPools, targetId, targetShares, position) ==
    IF position # "YES" \/ targetShares <= 0
    THEN LET pool == heap[allPools][targetId]
         IN [heap |-> heap,
             cost |-> costForShares(pool.YES, pool.NO, targetShares, position),
             newPools |-> allPools]
    ELSE Bind(simulateMultiChoiceTradeRef(heap, allPools, targetId, targetShares * 2,
                                          position),
              LAMBDA first :
         Bind(ExpandHi(first, allPools, targetId, targetShares, targetShares * 2),
              LAMBDA e :
         Bind(SearchCost(e.heap, allPools, targetId, targetShares, 0, e.hi, 0),
              LAMBDA b :
         Bind(RDiv(b.lo + b.hi, 2), LAMBDA cost :
         Bind(simulateMultiChoiceTradeRef(b.heap, allPools, targetId, cost, position),
              LAMBDA result :
         Bind(Collect(result.heap, Len(heap), result.newPools), LAMBDA g :
            [heap |-> g.heap, cost |-> cost, newPools |-> g.ref]))))))

\* multiChoiceCostForShares(allPools, targetId, targetShares, position) for a
\* PoolSet value.
multiChoiceCostForShares(allPools, targetId, targetShares, position) ==
    Bind(multiChoiceCostForSharesRef(<<allPools>>, 1, targetId, targetShares, position),
         LAMBDA r : [cost |-> r.cost, newPools |-> r.heap[r.newPools]])

(***************************************************************************)
(* Specification SpecMulti: the equilibrium simulator applied to bounded   *)
(* PoolSets.  mcPools is the caller's PoolSet, mcCall the last call made   *)
(* on it with its result.                                                  *)
(***************************************************************************)
Pool(y, n) == [YES |-> y * Scale, NO |-> n * Scale]

\* The pools a cell of an initial PoolSet is drawn from (probability 1/4 at
\* three depths, 1/2, 1/10).
McPoolChoices == {Pool(150, 50), Pool(30, 10), Pool(100, 100), Pool(90, 10)}

\* Initial PoolSets: one cell with its own pool, the three others alike.
McPoolSets ==
    {[c \in Cells |-> IF c = "a_yes_b_yes" THEN p ELSE q] :
        p \in McPoolChoices, q \in McPoolChoices}

\* Budgets and share targets: 1..McMaxAmount whole currency units, and 10.
McMaxAmount == 2
McAmounts == {a * Scale : a \in 1..McMaxAmount} \cup {10 * Scale}

McInit ==
    /\ CpIdle /\ CoIdle /\ HgIdle /\ HpIdle /\ SrIdle /\ MgIdle /\ VlIdle /\ LmIdle /\ PnIdle /\ CdIdle
    /\ mcPools \in McPoolSets
    /\ mcCall = <<>>
    /\ mcLegs = 0

SimulateMultiChoiceTradeCall ==
    /\ \E targetId \in Cells, cost \in McAmounts, position \in Sides :
          mcCall' = [op |-> "simulateMultiChoiceTrade", targetId |-> targetId,
                     arg |-> cost, position |-> position,
                     res |-> simulateMultiChoiceTrade(mcPools, targetId, cost, position)]
    /\ UNCHANGED <<mcPools, mcLegs, McOthers>>

McNext ==
    \/ SimulateMultiChoiceTradeCall

SpecMulti == McInit /\ [][McNext]_vars

(***************************************************************************)
(* Claims on the equilibrium simulator                                     *)
(***************************************************************************)
\* |sumP - 1| <= 0.001
NearOne(sumP) == Abs(sumP - PScale) * 1000 <= PScale

McIsYesTrade ==
    /\ mcCall # <<>>
    /\ mcCall.op = "simulateMultiChoiceTrade"
    /\ mcCall.position = "YES"

ProbIn(pools, id) == probabilityFromPool(pools[id].YES, pools[id].NO)

\* C4: for every 4-outcome PoolSet with positive reserves whose YES-probabilities
\* sum to 1 (within 1e-3), every target and every budget > 0, the pools returned
\* by simulateMultiChoiceTrade(pools, target, budget, 'YES') have probabilities
\* that sum to within 1e-3 of 1.
C4_SumStaysOne ==
    (McIsYesTrade /\ NearOne(sumOfProbabilities(mcPools))) =>
        NearOne(sumOfProbabilities(mcCall.res.newPools))

\* The concrete scenario: four pools {100, 100}, budget 10 on outcome 1.
McScenarioB ==
    /\ McIsYesTrade
    /\ mcPools = [c \in Cells |-> Pool(100, 100)]
    /\ mcCall.arg = 10 * Scale
    /\ mcCall.targetId = "a_yes_b_yes"

McTargetUp ==
    ProbIn(mcCall.res.newPools, mcCall.targetId) > ProbIn(mcPools, mcCall.targetId)
McOthersDown ==
    \A o \in Cells \ {mcCall.targetId} :
        ProbIn(mcCall.res.newPools, o) < ProbIn(mcPools, o)

\* C5 as stated: a YES purchase through simulateMultiChoiceTrade with a positive
\* budget leaves the target's probability strictly higher and each other
\* outcome's probability strictly lower than before.
C5_PricesMove == McIsYesTrade => (McTargetUp /\ McOthersDown)

\* C5 as amended: a YES purchase never moves a price the other way (the
\* target's probability is not lower, no other outcome's is higher), and for
\* four pools {100, 100} with a budget of 10 on outcome 1 all four move strictly.
C5_PricesNeverReverse ==
    McIsYesTrade =>
        /\ ProbIn(mcCall.res.newPools, mcCall.targetId) >= ProbIn(mcPools, mcCall.targetId)
        /\ \A o \in Cells \ {mcCall.targetId} :
               ProbIn(mcCall.res.newPools, o) <= ProbIn(mcPools, o)
        /\ McScenarioB => (McTargetUp /\ McOthersDown)

\* The concrete scenario has been simulated, and every price moved.
C5_Witness == McScenarioB /\ McTargetUp /\ McOthersDown

\* A YES purchase on a PoolSet whose probabilities sum to 1 has been simulated.
C4_Witness ==
    /\ McIsYesTrade
    /\ sumOfProbabilities(mcPools) = PScale
    /\ mcCall.res.shares > mcCall.arg

(***************************************************************************)
(* Correlation betting: computeNeutralCorrelationWeights                   *)
(*                                                                         *)
(* A joint probability is a whole number of 1/ProbDen; the solver's        *)
(* arithmetic is then exact in fractions: a..f are numerators over         *)
(* ProbDen^2, det a numerator over ProbDen^4, and a weight is a numerator  *)
(* n[i] over the common denominator d.                                     *)
(***************************************************************************)
ProbDen == 20

\* The threshold 1e-10 on |det| is 1 / (DetEpsRoot * DetEpsRoot).
DetEpsRoot == 100000

JointProbs ==
    {p \in [Cells -> 0..ProbDen] :
        p.a_yes_b_yes + p.a_yes_b_no + p.a_no_b_yes + p.a_no_b_no = ProbDen}

\* The matrix [a b; c d] and right-hand side [e; f] of the solver.
CorrSystem(probs) ==
    LET p11 == probs.a_yes_b_yes
        p12 == probs.a_yes_b_no
        p21 == probs.a_no_b_yes
        p22 == probs.a_no_b_no
        pA == p11 + p12
        pB == p11 + p21
    IN [a |-> (ProbDen - pA) * p12,
        b |-> (0 - pA) * p21,
        c |-> (0 - pB) * p12,
        d |-> (ProbDen - pB) * p21,
        e |-> 0 - (ProbDen - pA) * p11,
        f |-> 0 - (ProbDen - pB) * p11]

\* det = a * d - b * c
CorrDet(probs) ==
    LET m == CorrSystem(probs) IN m.a * m.d - m.b * m.c

\* Mutant of DetIsDegenerate: the comparison is inverted.
DetIsDegenerate_Inverted(det) ==
    ~(Abs(det) * DetEpsRoot
        <= (ProbDen * ProbDen * ProbDen * ProbDen - 1) \div DetEpsRoot)

\* Math.abs(det) < 1e-10, for det a numerator over ProbDen^4.
DetIsDegenerate(det) ==
    Abs(det) * DetEpsRoot
        <= (ProbDen * ProbDen * ProbDen * ProbDen - 1) \div DetEpsRoot

\* The degenerate-case return value { s1: 1, s2: 0, s3: 0, s4: 1 }.
FallbackWeights == [n |-> <<1, 0, 0, 1>>, d |-> 1]

\* Cramer's rule: s2 = (e*d - b*f) / det, s3 = (a*f - e*c) / det, s1 = 1, s4 = 0.
CramerWeights(probs, det) ==
    LET m == CorrSystem(probs)
    IN [n |-> <<det, m.e * m.d - m.b * m.f, m.a * m.f - m.e * m.c, 0>>, d |-> det]

\* computeNeutralCorrelationWeights in three steps: the determinant, then either
\* the degenerate return or the two divisions by det.
CoInit ==
    /\ CpIdle /\ McIdle /\ HgIdle /\ HpIdle /\ SrIdle /\ MgIdle /\ VlIdle /\ LmIdle /\ PnIdle /\ CdIdle
    /\ coProbs \in JointProbs
    /\ coPc = "start"
    /\ coDet = 0
    /\ coWeights = <<>>
    /\ coDivisions = 0

ComputeDeterminant ==
    /\ coPc = "start"
    /\ coDet' = CorrDet(coProbs)
    /\ coPc' = "det"
    /\ UNCHANGED <<coProbs, coWeights, coDivisions, CoOthers>>

ReturnDegenerate ==
    /\ coPc = "det"
    /\ DetIsDegenerate(coDet)
    /\ coWeights' = FallbackWeights
    /\ coPc' = "returned"
    /\ UNCHANGED <<coProbs, coDet, coDivisions, CoOthers>>

SolveCramer ==
    /\ coPc = "det"
    /\ ~DetIsDegenerate(coDet)
    /\ coWeights' = CramerWeights(coProbs, coDet)
    /\ coDivisions' = coDivisions + 2
    /\ coPc' = "returned"
    /\ UNCHANGED <<coProbs, coDet, CoOthers>>

CoNext ==
    \/ ComputeDeterminant
    \/ ReturnDegenerate
    \/ SolveCramer

SpecCorr == CoInit /\ [][CoNext]_vars

(***************************************************************************)
(* Claims on the correlation weight solver                                 *)
(***************************************************************************)
\* x/(dx*d) = y/(dy*d) within 1e-6, for positive dx, dy and d.
RatEqual(x, dx, y, dy, d) == Abs(x * dy - y * dx) <= (dx * dy * d) \div 1000000

\* The weights are doubly neutral at probs: E[payout | A] = E[payout | ~A] and
\* E[payout | B] = E[payout | ~B] (each side a fraction over marginal * |d|).
DoublyNeutral(probs, w) ==
    LET p11 == probs.a_yes_b_yes
        p12 == probs.a_yes_b_no
        p21 == probs.a_no_b_yes
        p22 == probs.a_no_b_no
        pA == p11 + p12
        pB == p11 + p21
        sg == IF w.d < 0 THEN 0 - 1 ELSE 1
        s1 == sg * w.n[1]
        s2 == sg * w.n[2]
        s3 == sg * w.n[3]
        s4 == sg * w.n[4]
    IN /\ RatEqual(p11 * s1 + p12 * s2, pA,
                   p21 * s3 + p22 * s4, ProbDen - pA, Abs(w.d))
       /\ RatEqual(p11 * s1 + p21 * s3, pB,
                   p12 * s2 + p22 * s4, ProbDen - pB, Abs(w.d))

\* Both events have a probability strictly between 0 and 1.
CoProperMarginals ==
    LET pA == coProbs.a_yes_b_yes + coProbs.a_yes_b_no
        pB == coProbs.a_yes_b_yes + coProbs.a_no_b_yes
    IN 0 < pA /\ pA < ProbDen /\ 0 < pB /\ pB < ProbDen

\* C6: for every joint probability assignment, the weights returned by
\* computeNeutralCorrelationWeights are doubly neutral at those probabilities,
\* whichever branch produced them.
C6_Neutral ==
    (coPc = "returned" /\ CoProperMarginals) => DoublyNeutral(coProbs, coWeights)

\* |det| * 1e10 < 1, with det = coDet / ProbDen^4.
CoSmallDet ==
    Abs(coDet) <= (((ProbDen * ProbDen * ProbDen * ProbDen - 1) \div 100000) \div 100000)

\* C7: whenever |det| < 1e-10 the function returns exactly (1, 0, 0, 1) and has
\* performed no division by det; so it does for joint probabilities all 0.25.
C7_DegenerateFallback ==
    (coPc = "returned" /\ CoSmallDet) =>
        (coWeights = FallbackWeights /\ coDivisions = 0)

\* The solver has returned for joint probabilities all equal to 0.25.
C7_Witness ==
    /\ coPc = "returned"
    /\ coProbs = [c \in Cells |-> ProbDen \div 4]
    /\ 4 * (ProbDen \div 4) = ProbDen
    /\ coDet = 0
    /\ coWeights = FallbackWeights

(***************************************************************************)
(* Conditional bets: HEDGE_CONFIG, updateConditionalTradePreview and       *)
(* executeConditionalBet                                                   *)
(***************************************************************************)
CondTypes == {"a_given_b", "a_given_not_b", "b_given_a", "b_given_not_a"}
Directions == {"yes", "no"}

\* Mutant of HEDGE_CONFIG: b_given_a names the wrong cell as its NO target.
HEDGE_CONFIG_WrongTarget ==
    [condType \in CondTypes |->
        CASE condType = "a_given_b" ->
                [hedgeCells |-> <<"a_yes_b_no", "a_no_b_no">>,
                 targetYes |-> "a_yes_b_yes", targetNo |-> "a_no_b_yes"]
          [] condType = "a_given_not_b" ->
                [hedgeCells |-> <<"a_yes_b_yes", "a_no_b_yes">>,
                 targetYes |-> "a_yes_b_no", targetNo |-> "a_no_b_no"]
          [] condType = "b_given_a" ->
                [hedgeCells |-> <<"a_no_b_yes", "a_no_b_no">>,
                 targetYes |-> "a_yes_b_yes", targetNo |-> "a_no_b_yes"]
          [] condType = "b_given_not_a" ->
                [hedgeCells |-> <<"a_yes_b_yes", "a_yes_b_no">>,
                 targetYes |-> "a_no_b_yes", targetNo |-> "a_no_b_no"]]

HEDGE_CONFIG ==
    [condType \in CondTypes |->
        CASE condType = "a_given_b" ->
                [hedgeCells |-> <<"a_yes_b_no", "a_no_b_no">>,
                 targetYes |-> "a_yes_b_yes", targetNo |-> "a_no_b_yes"]
          [] condType = "a_given_not_b" ->
                [hedgeCells |-> <<"a_yes_b_yes", "a_no_b_yes">>,
                 targetYes |-> "a_yes_b_no", targetNo |-> "a_no_b_no"]
          [] condType = "b_given_a" ->
                [hedgeCells |-> <<"a_no_b_yes", "a_no_b_no">>,
                 targetYes |-> "a_yes_b_yes", targetNo |-> "a_yes_b_no"]
          [] condType = "b_given_not_a" ->
                [hedgeCells |-> <<"a_yes_b_yes", "a_yes_b_no">>,
                 targetYes |-> "a_no_b_yes", targetNo |-> "a_no_b_no"]]

\* parseFloat(field.value) || 10: an empty or zero field reads as 10.
PanelAmount(value) == IF value = 0 THEN 10 * Scale ELSE value

\* The sequential hedge simulation both handlers run: the pools are cloned, then
\* each hedge cell buys `shares` YES shares on the pools the previous leg left
\* (first and second are the results of the two calls).
\* Mutant of HedgeLegs: the second hedge leg is costed against the pools the
\* handler started from.
HedgeLegs_Snapshot(pools, hedgeCells, shares) ==
    Bind(multiChoiceCostForShares(copyPools(pools), hedgeCells[1], shares, "YES"),
         LAMBDA first :
    Bind(multiChoiceCostForShares(copyPools(pools), hedgeCells[2], shares, "YES"),
         LAMBDA second :
            [costs |-> <<first.cost, second.cost>>, simPools |-> second.newPools]))

HedgeLegs(pools, hedgeCells, shares) ==
    Bind(multiChoiceCostForShares(copyPools(pools), hedgeCells[1], shares, "YES"),
         LAMBDA first :
    Bind(multiChoiceCostForShares(first.newPools, hedgeCells[2], shares, "YES"),
         LAMBDA second :
            [costs |-> <<first.cost, second.cost>>, simPools |-> second.newPools]))

\* Mutant of PreviewTargetAmount: the hedge cost is not taken off the budget.
PreviewTargetAmount_WholeAmount(amount, totalHedgeCost) == Max2(0, amount)

\* Math.max(0, amount - totalHedgeCost)
PreviewTargetAmount(amount, totalHedgeCost) == Max2(0, amount - totalHedgeCost)

\* Math.max(1, x): a leg is raised to the minimum bet of 1.
AtLeastMinBet(x) == Max2(Scale, x)

cellPayout(cellName, winCell, loseCell, hedgeCells) ==
    IF cellName = winCell THEN "WIN"
    ELSE IF cellName = loseCell THEN "LOSE"
    ELSE IF cellName \in {hedgeCells[i] : i \in DOMAIN hedgeCells} THEN "NEUTRAL"
    ELSE "?"

\* What updateConditionalTradePreview computes and renders (every pool of the
\* market is present, so each leg is priced by the simulation).
ConditionalTradePreview(pools, condType, direction, value) ==
    Bind(HedgeLegs(pools, HEDGE_CONFIG[condType].hedgeCells, PanelAmount(value)),
         LAMBDA legs :
    LET config == HEDGE_CONFIG[condType]
        amount == PanelAmount(value)
        targetCell == IF direction = "yes" THEN config.targetYes ELSE config.targetNo
        totalHedgeCost == legs.costs[1] + legs.costs[2]
        targetAmount == PreviewTargetAmount(amount, totalHedgeCost)
        targetShares ==
            IF targetAmount > 0
            THEN simulateMultiChoiceTrade(legs.simPools, targetCell, targetAmount, "YES").shares
            ELSE 0
        loseCell == IF direction = "yes" THEN config.targetNo ELSE config.targetYes
    IN [amount |-> amount,
        hedgeCells |-> config.hedgeCells,
        hedgeCellCosts |-> legs.costs,
        totalHedgeCost |-> totalHedgeCost,
        targetCell |-> targetCell,
        targetAmount |-> targetAmount,
        targetShares |-> targetShares,
        payouts |-> [c \in Cells |-> cellPayout(c, targetCell, loseCell, config.hedgeCells)]])

\* The legs executeConditionalBet computes before it places any bet.
ConditionalBetLegs(pools, condType, direction, value) ==
    Bind(HedgeLegs(pools, HEDGE_CONFIG[condType].hedgeCells, PanelAmount(value)),
         LAMBDA legs :
    LET config == HEDGE_CONFIG[condType]
        amount == PanelAmount(value)
        totalHedgeCost == legs.costs[1] + legs.costs[2]
    IN [amount |-> amount,
        hedgeBets |-> [i \in 1..2 |-> [cellName |-> config.hedgeCells[i],
                                       cellCost |-> AtLeastMinBet(legs.costs[i])]],
        totalHedgeCost |-> totalHedgeCost,
        targetCell |-> IF direction = "yes" THEN config.targetYes ELSE config.targetNo,
        targetAmount |-> AtLeastMinBet(amount - totalHedgeCost)])

\* updatePanelPreview: the conditional preview is redrawn when a conditional
\* panel is open.
PanelPreview(pools, condType, direction, value) ==
    IF condType # "null"
    THEN ConditionalTradePreview(pools, condType, direction, value)
    ELSE <<>>

(***************************************************************************)
(* SpecCond: a market is loaded; the user opens a conditional panel, picks *)
(* a direction, types an amount, and places the bet.  While an execution   *)
(* awaits the API the panel's controls are not operated.                   *)
(***************************************************************************)
CondMaxAmount == 2

CondAmountFields == {a * Scale : a \in 0..CondMaxAmount}

CondPoolSets ==
    {[c \in Cells |-> Pool(150, 50)],
     [a_yes_b_yes |-> Pool(60, 40), a_yes_b_no |-> Pool(90, 10),
      a_no_b_yes |-> Pool(80, 20), a_no_b_no |-> Pool(70, 30)]}

\* The bets of one execution: two hedge legs and the target.
LegsPerBet == 3

HgInit ==
    /\ CpIdle /\ McIdle /\ CoIdle /\ HpIdle /\ SrIdle /\ MgIdle /\ VlIdle /\ LmIdle /\ PnIdle /\ CdIdle
    /\ marketPools \in CondPoolSets
    /\ currentCondType = "null"
    /\ currentBetDirection = "yes"
    /\ panelBetAmount \in CondAmountFields
    /\ tradePlan = <<>>
    /\ execPlan = <<>>
    /\ execPlaced = 0

OpenConditionalBetPanel ==
    /\ execPlan = <<>>
    /\ \E condType \in CondTypes :
        /\ currentCondType' = condType
        /\ currentBetDirection' = "yes"
        /\ tradePlan' = ConditionalTradePreview(marketPools, condType, "yes", panelBetAmount)
    /\ UNCHANGED <<marketPools, panelBetAmount, execPlan, execPlaced, HgOthers>>

DirectionClick ==
    /\ execPlan = <<>>
    /\ \E direction \in Directions :
        /\ currentBetDirection' = direction
        /\ tradePlan' = PanelPreview(marketPools, currentCondType, direction, panelBetAmount)
    /\ UNCHANGED <<marketPools, currentCondType, panelBetAmount, execPlan, execPlaced,
                   HgOthers>>

PanelBetAmountInput ==
    /\ execPlan = <<>>
    /\ \E value \in CondAmountFields :
        /\ panelBetAmount' = value
        /\ tradePlan' = PanelPreview(marketPools, currentCondType, currentBetDirection, value)
    /\ UNCHANGED <<marketPools, currentCondType, currentBetDirection, execPlan, execPlaced,
                   HgOthers>>

closeBetPanel ==
    /\ execPlan = <<>>
    /\ currentCondType # "null"
    /\ currentCondType' = "null"
    /\ tradePlan' = <<>>
    /\ UNCHANGED <<marketPools, currentBetDirection, panelBetAmount, execPlan, execPlaced,
                   HgOthers>>

\* executeConditionalBet up to its first await; without an API key it only
\* shows an error.
ExecuteConditionalBet ==
    /\ execPlan = <<>>
    /\ currentCondType # "null"
    /\ \E hasApiKey \in BOOLEAN :
        execPlan' = IF hasApiKey
                    THEN ConditionalBetLegs(marketPools, currentCondType,
                                            currentBetDirection, panelBetAmount)
                    ELSE execPlan
    /\ UNCHANGED <<marketPools, currentCondType, currentBetDirection, panelBetAmount,
                   tradePlan, execPlaced, HgOthers>>

\* One placeBet resolves.
PlaceBetResolves ==
    /\ execPlan # <<>>
    /\ execPlaced < LegsPerBet
    /\ execPlaced' = execPlaced + 1
    /\ UNCHANGED <<marketPools, currentCondType, currentBetDirection, panelBetAmount,
                   tradePlan, execPlan, HgOthers>>

\* One placeBet throws: the error is shown and the panel stays as it was.
PlaceBetThrows ==
    /\ execPlan # <<>>
    /\ execPlaced < LegsPerBet
    /\ execPlan' = <<>>
    /\ execPlaced' = 0
    /\ UNCHANGED <<marketPools, currentCondType, currentBetDirection, panelBetAmount,
                   tradePlan, HgOthers>>

\* All bets placed: the panel closes and loadMarket fetches the pools again.
ExecuteConditionalBetDone ==
    /\ execPlan # <<>>
    /\ execPlaced = LegsPerBet
    /\ currentCondType' = "null"
    /\ tradePlan' = <<>>
    /\ execPlan' = <<>>
    /\ execPlaced' = 0
    /\ marketPools' \in CondPoolSets
    /\ UNCHANGED <<currentBetDirection, panelBetAmount, HgOthers>>

HgNext ==
    \/ OpenConditionalBetPanel
    \/ DirectionClick
    \/ PanelBetAmountInput
    \/ closeBetPanel
    \/ ExecuteConditionalBet
    \/ PlaceBetResolves
    \/ PlaceBetThrows
    \/ ExecuteConditionalBetDone

SpecCond == HgInit /\ [][HgNext]_vars

(***************************************************************************)
(* Claims on the conditional plan                                          *)
(***************************************************************************)
\* Total of the plan the preview shows: the hedge leg costs plus the target leg.
PreviewTotal == tradePlan.totalHedgeCost + tradePlan.targetAmount

\* Total of the leg amounts executeConditionalBet submits.
ExecTotal ==
    execPlan.hedgeBets[1].cellCost + execPlan.hedgeBets[2].cellCost
        + execPlan.targetAmount

ExecAboveMinimum ==
    /\ execPlan.hedgeBets[1].cellCost > Scale
    /\ execPlan.hedgeBets[2].cellCost > Scale
    /\ execPlan.targetAmount > Scale

CellA(c) == c \in {"a_yes_b_yes", "a_yes_b_no"}
CellB(c) == c \in {"a_yes_b_yes", "a_no_b_yes"}

\* The condition of a conditional bet type holds in cell c.
ConditionHolds(condType, c) ==
    CASE condType = "a_given_b" -> CellB(c)
      [] condType = "a_given_not_b" -> ~CellB(c)
      [] condType = "b_given_a" -> CellA(c)
      [] condType = "b_given_not_a" -> ~CellA(c)

\* The event the bet is on (A for a_given_*, B for b_given_*) holds in cell c.
SubjectHolds(condType, c) ==
    IF condType \in {"a_given_b", "a_given_not_b"} THEN CellA(c) ELSE CellB(c)

ExpectedLabel(condType, direction, c) ==
    IF ~ConditionHolds(condType, c) THEN "NEUTRAL"
    ELSE IF SubjectHolds(condType, c) <=> (direction = "yes") THEN "WIN"
    ELSE "LOSE"

\* C9: for each conditional bet type and direction the target cell (condition
\* true, event as bet) is WIN, the other cell under the condition is LOSE, the
\* two cells where the condition is false are the hedge cells and are NEUTRAL,
\* and no cell is left as '?'.
C9_PayoutLabels ==
    tradePlan # <<>> =>
        /\ \A c \in Cells :
              tradePlan.payouts[c]
                  = ExpectedLabel(currentCondType, currentBetDirection, c)
        /\ tradePlan.payouts[tradePlan.targetCell] = "WIN"
        /\ {tradePlan.hedgeCells[i] : i \in DOMAIN tradePlan.hedgeCells}
              = {c \in Cells : ~ConditionHolds(currentCondType, c)}

\* A NO bet on B given not A is previewed: not A and not B wins.
C9_Witness ==
    /\ tradePlan # <<>>
    /\ currentCondType = "b_given_not_a"
    /\ currentBetDirection = "no"
    /\ tradePlan.payouts = [a_yes_b_yes |-> "NEUTRAL", a_yes_b_no |-> "NEUTRAL",
                            a_no_b_yes |-> "LOSE", a_no_b_no |-> "WIN"]

(***************************************************************************)
(* Correlation bet planning (analyzeCorrelationBet) on PoolSet objects     *)
(***************************************************************************)

\* computeNeutralCorrelationWeights(probs): s1..s4 as numerators n over d.
computeNeutralCorrelationWeights(probs) ==
    Bind(CorrDet(probs), LAMBDA det :
        IF DetIsDegenerate(det) THEN FallbackWeights ELSE CramerWeights(probs, det))

\* { s1: -weights.s1, ... } of the long direction.
NegatedWeights(weights) ==
    [n |-> [i \in 1..4 |-> 0 - weights.n[i]], d |-> weights.d]

\* The same quotients written over a positive denominator.
PositiveDenominator(weights) ==
    IF weights.d < 0 THEN [n |-> [i \in 1..4 |-> 0 - weights.n[i]], d |-> 0 - weights.d]
    ELSE weights

MinOf(S) == CHOOSE x \in S : \A y \in S : x <= y
MaxOf(S) == CHOOSE x \in S : \A y \in S : x >= y

\* Mutant of makeLongOnly: the weights are returned as they are.
makeLongOnly_NoShift(weights) == weights

\* makeLongOnly(weights), for weights over a positive denominator.
makeLongOnly(weights) ==
    LET minWeight == MinOf({weights.n[i] : i \in 1..4})
    IN IF minWeight >= 0 THEN weights
       ELSE [n |-> [i \in 1..4 |-> weights.n[i] - minWeight], d |-> weights.d]

\* scaleWeights(weights, maxShares): the scaled weights are share counts.
scaleWeights(weights, maxShares) ==
    LET maxWeight == MaxOf({weights.n[i] : i \in 1..4})
    IN IF maxWeight <= 0 THEN [i \in 1..4 |-> 0]
       ELSE [i \in 1..4 |-> RDiv(weights.n[i] * maxShares, maxWeight)]

\* The shares object of analyzeCorrelationBet.
CorrelationShares(probs, scale, direction) ==
    LET raw == computeNeutralCorrelationWeights(probs)
        weights == IF direction = "long" THEN NegatedWeights(raw) ELSE raw
        s == scaleWeights(makeLongOnly(PositiveDenominator(weights)), scale)
    IN [a_yes_b_yes |-> s[1], a_yes_b_no |-> s[2],
        a_no_b_yes |-> s[3], a_no_b_no |-> s[4]]

\* shares[c] >= 0.001
IsTraded(shareCount) == shareCount * 1000 >= Scale

\* cellOrder: the traded cells, stably sorted by their initial cost estimate.
cellOrder(pools, shares) ==
    LET traded == {c \in Cells : IsTraded(shares[c])}
        estimate(c) == costForShares(pools[c].YES, pools[c].NO, shares[c], "YES")
        index(c) == CHOOSE i \in DOMAIN allCells : allCells[i] = c
        rank(c) == 1 + Cardinality({o \in traded :
                          \/ estimate(o) < estimate(c)
                          \/ estimate(o) = estimate(c) /\ index(o) < index(c)})
    IN [i \in 1..Cardinality(traded) |-> CHOOSE c \in traded : rank(c) = i]

\* allPoolsById: a new object holding a new pool per cell of simPools.
allPoolsByIdRef(heap, simPools) ==
    [heap |-> Append(heap, [cn \in DOMAIN heap[simPools] |->
                              [YES |-> heap[simPools][cn].YES,
                               NO |-> heap[simPools][cn].NO]]),
     ref |-> Len(heap) + 1]

\* One iteration of the loop over cellOrder.
AnalyzeLeg(heap, simPools, cellName, shareCount) ==
    Bind(allPoolsByIdRef(heap, simPools), LAMBDA byId :
    Bind(multiChoiceCostForSharesRef(byId.heap, byId.ref, cellName, shareCount, "YES"),
         LAMBDA result :
        IF isFinite(result.cost)
        THEN [heap |-> result.heap, simPools |-> result.newPools, cost |-> result.cost]
        ELSE LET pool == heap[simPools][cellName]
                 cost == costForShares(pool.YES, pool.NO, shareCount, "YES")
                 newPool == poolAfterTrade(pool.YES, pool.NO, cost, "YES")
             IN [heap |-> [result.heap EXCEPT ![simPools][cellName] =
                              [YES |-> newPool.y, NO |-> newPool.n]],
                 simPools |-> simPools,
                 cost |-> cost]))

RECURSIVE AnalyzeLegs(_, _, _, _, _, _)
AnalyzeLegs(heap, simPools, shares, order, i, totalCost) ==
    IF i > Len(order)
    THEN [heap |-> heap, simPools |-> simPools, totalCost |-> totalCost]
    ELSE Bind(AnalyzeLeg(heap, simPools, order[i], shares[order[i]]), LAMBDA leg :
            AnalyzeLegs(leg.heap, leg.simPools, shares, order, i + 1,
                        totalCost + leg.cost))

\* analyzeCorrelationBet(pools, probs, scale, direction).  No PoolSet is
\* returned: every object the function allocated is garbage afterwards.
analyzeCorrelationBetRef(heap, pools, probs, scale, direction) ==
    Bind(CorrelationShares(probs, scale, direction), LAMBDA shares :
    Bind(copyPoolsRef(heap, pools), LAMBDA c :
    Bind(AnalyzeLegs(c.heap, c.ref, shares, cellOrder(c.heap[c.ref], shares), 1, 0),
         LAMBDA legs :
        [heap |-> SubSeq(legs.heap, 1, Len(heap)),
         shares |-> shares,
         tradeOrder |-> cellOrder(c.heap[c.ref], shares),
         totalCost |-> legs.totalCost])))

(***************************************************************************)
(* SpecHeap: a caller holding PoolSet objects calls the simulation and     *)
(* planning functions in any order, on marketProbabilities.pools (object   *)
(* 1) or on a PoolSet an earlier call returned.  The caller keeps the      *)
(* market's PoolSet, the PoolSet it passed to the last call and the        *)
(* PoolSet that call returned; hpOriginal records what each of them held   *)
(* when the caller first got it.                                           *)
(***************************************************************************)
HpMaxCalls == 2

HpPoolSets ==
    {[a_yes_b_yes |-> Pool(60, 40), a_yes_b_no |-> Pool(90, 10),
      a_no_b_yes |-> Pool(80, 20), a_no_b_no |-> Pool(70, 30)]}
HpTargets == {"a_yes_b_yes", "a_no_b_yes"}
HpAmounts == {Scale}
HpNoShares == {Scale, 10 * Scale}
HpShares == {0, Scale}
HpProbs == {[a_yes_b_yes |-> 8, a_yes_b_no |-> 2, a_no_b_yes |-> 4, a_no_b_no |-> 6]}
HpScales == {5 * Scale}

HpInit ==
    /\ CpIdle /\ McIdle /\ CoIdle /\ HgIdle /\ SrIdle /\ MgIdle /\ VlIdle /\ LmIdle /\ PnIdle /\ CdIdle
    /\ hpHeap \in {<<ps>> : ps \in HpPoolSets}
    /\ hpOriginal = hpHeap
    /\ hpLast = <<>>
    /\ hpCalls = 0

\* The objects the caller still holds after a call on allPools that returned
\* newPools (0: none), in the order market, input, returned.
Held(allPools, newPools) ==
    LET input == IF allPools = 1 THEN <<1>> ELSE <<1, allPools>>
    IN IF newPools = 0 \/ newPools = 1 \/ newPools = allPools
       THEN input ELSE Append(input, newPools)

PositionIn(held, ref) ==
    IF ref = 0 THEN 0 ELSE CHOOSE i \in DOMAIN held : held[i] = ref

\* The call op(allPools, ...) has returned: heap is the heap it left behind.
Returned(op, heap, allPools, newPools) ==
    LET held == Held(allPools, newPools)
    IN /\ hpHeap' = [i \in DOMAIN held |-> heap[held[i]]]
       /\ hpOriginal' = [i \in DOMAIN held |->
                            IF held[i] <= Len(hpOriginal) THEN hpOriginal[held[i]]
                            ELSE heap[held[i]]]
       /\ hpLast' = [op |-> op,
                     allPools |-> PositionIn(held, allPools),
                     newPools |-> PositionIn(held, newPools)]
       /\ hpCalls' = hpCalls + 1
       /\ UNCHANGED HpOthers

CallSimulateMultiChoiceYesBuy ==
    /\ hpCalls < HpMaxCalls
    /\ \E allPools \in DOMAIN hpHeap, targetId \in HpTargets,
          betAmount \in HpAmounts, noShares \in HpNoShares :
          \E r \in {simulateMultiChoiceYesBuyRef(hpHeap, allPools, targetId,
                                                betAmount, noShares)} :
             Returned("simulateMultiChoiceYesBuy", r.heap, allPools,
                      IF r.result.isNull THEN 0 ELSE r.result.newPools)

CallSimulateMultiChoiceTrade ==
    /\ hpCalls < HpMaxCalls
    /\ \E allPools \in DOMAIN hpHeap, targetId \in HpTargets,
          cost \in HpAmounts, position \in Sides :
          \E r \in {simulateMultiChoiceTradeRef(hpHeap, allPools, targetId,
                                               cost, position)} :
             Returned("simulateMultiChoiceTrade", r.heap, allPools, r.newPools)

CallMultiChoiceCostForShares ==
    /\ hpCalls < HpMaxCalls
    /\ \E allPools \in DOMAIN hpHeap, targetId \in HpTargets,
          targetShares \in HpShares, position \in Sides :
          \E r \in {multiChoiceCostForSharesRef(hpHeap, allPools, targetId,
                                               targetShares, position)} :
             Returned("multiChoiceCostForShares", r.heap, allPools, r.newPools)

CallAnalyzeCorrelationBet ==
    /\ hpCalls < HpMaxCalls
    /\ \E pools \in DOMAIN hpHeap, probs \in HpProbs,
          scale \in HpScales, direction \in {"long", "short"} :
          \E r \in {analyzeCorrelationBetRef(hpHeap, pools, probs, scale, direction)} :
             Returned("analyzeCorrelationBet", r.heap, pools, 0)

HpNext ==
    \/ CallSimulateMultiChoiceYesBuy
    \/ CallSimulateMultiChoiceTrade
    \/ CallMultiChoiceCostForShares
    \/ CallAnalyzeCorrelationBet

SpecHeap == HpInit /\ [][HpNext]_vars

\* C10: no simulation or planning function modifies the PoolSet it is given:
\* after any sequence of calls every PoolSet the caller holds, the market's
\* included, has the reserves it had when the caller got it, and a simulation
\* hands its updated pools back in an object that is neither its input nor the
\* market's PoolSet.
C10_InputsUnmodified ==
    /\ \A ref \in DOMAIN hpHeap : hpHeap[ref] = hpOriginal[ref]
    /\ hpLast # <<>> /\ hpLast.newPools # 0
          => \/ hpLast.newPools \notin {1, hpLast.allPools}
             \/ hpHeap[hpLast.newPools] = hpOriginal[hpLast.allPools]

\* A second call was made on a PoolSet the first call returned, and it
\* returned a third object with different reserves.
C10_Witness ==
    /\ hpCalls = 2
    /\ hpLast.allPools = 2
    /\ hpLast.newPools = 3
    /\ hpHeap[3] # hpHeap[2]
    /\ hpHeap[2] # hpHeap[1]

(***************************************************************************)
(* SpecSearch: the control flow of the two searches.  A call of            *)
(* simulateMultiChoiceTrade or multiChoiceCostForShares is followed one    *)
(* loop iteration at a time.  Neither loop reads the pools to decide       *)
(* whether it goes on: the noShares loop reads what                        *)
(* simulateMultiChoiceYesBuy returned (nothing, or pools whose sumP is     *)
(* close to, above or below 1, or not a number), the loops of              *)
(* multiChoiceCostForShares read whether result.shares < targetShares.     *)
(* Both are taken here in every way they can come out, which covers every  *)
(* PoolSet and every amount.  The PoolSet has an entry for targetId.       *)
(***************************************************************************)
YesBuyOutcomes == {"null", "close", "above", "below", "nan"}

\* Share targets: none, one below the cap of hi by three doublings, the cap.
SrTargetShares == {0, (MaxHi * Scale) \div 8, MaxHi * Scale}

\* The number of times hi can be doubled before it reaches the cap.
RECURSIVE DoublingsFrom(_)
DoublingsFrom(hi) == IF hi < MaxHi * Scale THEN 1 + DoublingsFrom(hi * 2) ELSE 0

\* The most doublings "hi *= 2" can make from the smallest positive target.
SrMaxDoublings == DoublingsFrom(2 * MinOf({t \in SrTargetShares : t > 0}))

SrInit ==
    /\ CpIdle /\ McIdle /\ CoIdle /\ HgIdle /\ HpIdle /\ MgIdle /\ VlIdle /\ LmIdle /\ PnIdle /\ CdIdle
    /\ SrIdle

\* Mutant of NoSharesLoopContinues: the loop has no iteration limit.
NoSharesLoopContinues_NoLimit(iter) == iter >= 0

\* iter < 60
NoSharesLoopContinues(iter) == iter < NoSharesIterations

\* result.shares < targetShares && hi < 1000000
KeepExpanding(sharesBelowTarget, hi) == sharesBelowTarget /\ hi < MaxHi * Scale

\* i < 50: the next call of simulateMultiChoiceTrade is the one of the loop
\* body, and after the loop the one made for the returned cost.
CostSite(i) == IF i < CostIterations THEN "bisect" ELSE "final"

\* simulateMultiChoiceTrade(allPools, targetId, _, 'YES') is entered from site.
EnterNoSharesLoop(site) ==
    /\ srPc' = "noShares"
    /\ srSite' = site
    /\ srIter' = 0
    /\ srBest' = "null"

\* The for loop of simulateMultiChoiceTrade is over: by the break, or by iter.
NoSharesLoopOver ==
    \/ srPc = "break"
    \/ srPc = "noShares" /\ ~NoSharesLoopContinues(srIter)

\* What simulateMultiChoiceTrade returns after the loop: bestResult's pools
\* and shares, or the binary fallback when bestResult is null.
TradeResult == IF srBest = "null" THEN "fallback" ELSE "bestResult"

\* simulateMultiChoiceTrade(allPools, targetId, cost, position) is called.
SrCallSimulateMultiChoiceTrade ==
    /\ srPc = "idle"
    /\ \E position \in Sides :
          IF position # "YES"
          THEN /\ srPc' = "returned"
               /\ srResult' = <<"shares", "binary">>
               /\ UNCHANGED <<srSite, srIter, srBest>>
          ELSE /\ EnterNoSharesLoop("direct")
               /\ UNCHANGED srResult
    /\ UNCHANGED <<srHi, srDoublings, srI, SrOthers>>

\* multiChoiceCostForShares(allPools, targetId, targetShares, position) is
\* called: the binary return, or hi = targetShares * 2 and the first simulation.
SrCallMultiChoiceCostForShares ==
    /\ srPc = "idle"
    /\ \E targetShares \in SrTargetShares, position \in Sides :
          IF position # "YES" \/ targetShares <= 0
          THEN /\ srPc' = "returned"
               /\ srResult' = <<"cost", "binary">>
               /\ UNCHANGED <<srSite, srIter, srBest, srHi>>
          ELSE /\ EnterNoSharesLoop("expand")
               /\ srHi' = targetShares * 2
               /\ UNCHANGED srResult
    /\ UNCHANGED <<srDoublings, srI, SrOthers>>

\* One iteration of the noShares loop: continue on null, bestResult set by the
\* first result whose sumP is a number, break when sumP is close to 1.
NoSharesLoopIteration ==
    /\ srPc = "noShares"
    /\ NoSharesLoopContinues(srIter)
    /\ \E outcome \in YesBuyOutcomes :
          /\ srBest' = IF outcome \in {"close", "above", "below"} THEN "result"
                       ELSE srBest
          /\ srPc' = IF outcome = "close" THEN "break" ELSE "noShares"
          /\ srIter' = IF outcome = "close" THEN srIter ELSE srIter + 1
    /\ UNCHANGED <<srSite, srHi, srDoublings, srI, srResult, SrOthers>>

\* simulateMultiChoiceTrade returns to whoever called it from outside.
SimulateMultiChoiceTradeReturns ==
    /\ NoSharesLoopOver
    /\ srSite = "direct"
    /\ srPc' = "returned"
    /\ srResult' = <<"shares", TradeResult>>
    /\ UNCHANGED <<srSite, srHi, srDoublings, srI, srIter, srBest, SrOthers>>

\* The while loop "expand hi if needed" tests the result of the last simulation.
ExpandHiTest ==
    /\ NoSharesLoopOver
    /\ srSite = "expand"
    /\ \E sharesBelowTarget \in BOOLEAN :
          IF KeepExpanding(sharesBelowTarget, srHi)
          THEN /\ srHi' = srHi * 2
               /\ srDoublings' = srDoublings + 1
               /\ EnterNoSharesLoop("expand")
               /\ UNCHANGED srI
          ELSE /\ srI' = 0
               /\ EnterNoSharesLoop(CostSite(0))
               /\ UNCHANGED <<srHi, srDoublings>>
    /\ UNCHANGED <<srResult, SrOthers>>

\* One iteration of the cost loop ends: lo or hi becomes mid, i++.
CostLoopIteration ==
    /\ NoSharesLoopOver
    /\ srSite = "bisect"
    /\ srI' = srI + 1
    /\ EnterNoSharesLoop(CostSite(srI + 1))
    /\ UNCHANGED <<srHi, srDoublings, srResult, SrOthers>>

\* multiChoiceCostForShares returns { cost, newPools: result.newPools }.
MultiChoiceCostForSharesReturns ==
    /\ NoSharesLoopOver
    /\ srSite = "final"
    /\ srPc' = "returned"
    /\ srResult' = <<"cost", TradeResult>>
    /\ UNCHANGED <<srSite, srHi, srDoublings, srI, srIter, srBest, SrOthers>>

SrNext ==
    \/ SrCallSimulateMultiChoiceTrade
    \/ SrCallMultiChoiceCostForShares
    \/ NoSharesLoopIteration
    \/ SimulateMultiChoiceTradeReturns
    \/ ExpandHiTest
    \/ CostLoopIteration
    \/ MultiChoiceCostForSharesReturns

\* Every call runs on: the functions are synchronous.
SpecSearch == SrInit /\ [][SrNext]_vars /\ WF_vars(SrNext)

\* C11: simulateMultiChoiceTrade and multiChoiceCostForShares always terminate
\* and return a result object: the noShares loop makes at most 60 iterations,
\* the expansion of hi a bounded number of doublings, the cost loop at most 50
\* iterations, and a search that has not converged returns like any other.
C11_SearchesTerminate ==
    /\ [](/\ srIter <= NoSharesIterations
          /\ srI <= CostIterations
          /\ srDoublings <= SrMaxDoublings
          /\ srPc = "returned" => srResult # <<>>)
    /\ <>(srPc = "returned")

\* multiChoiceCostForShares has returned after doubling hi up to its cap and
\* 50 iterations, its last simulation having run 60 iterations without a result.
C11_Witness ==
    /\ srPc = "returned"
    /\ srResult = <<"cost", "fallback">>
    /\ srDoublings = SrMaxDoublings
    /\ srI = CostIterations
    /\ srIter = NoSharesIterations

(***************************************************************************)
(* SpecRange: sharesForCost and costForShares called with a cost or a      *)
(* share count that is zero or negative, on pools that may be empty on a   *)
(* side.  cpCalls records the last two calls as in SpecCpmm.               *)
(***************************************************************************)
CpRangeReserves == CpReserves \cup {0}
CpNonPositive == {0 - a : a \in CpArgs}

CpRangeInit ==
    /\ McIdle /\ CoIdle /\ HgIdle /\ HpIdle /\ SrIdle /\ MgIdle /\ VlIdle /\ LmIdle /\ PnIdle /\ CdIdle
    /\ cpPool \in [y : CpRangeReserves, n : CpRangeReserves]
    /\ cpSide \in Sides
    /\ cpCalls = <<>>

SharesForCostNonPositive ==
    /\ \E cost \in CpNonPositive :
          CpRecord("sharesForCost", cost,
                   sharesForCost(cpPool.y, cpPool.n, cost, cpSide), cpPool, FALSE)
    /\ UNCHANGED <<cpPool, cpSide, CpOthers>>

CostForSharesNonPositive ==
    /\ \E shares \in CpNonPositive :
          CpRecord("costForShares", shares,
                   costForShares(cpPool.y, cpPool.n, shares, cpSide), cpPool, FALSE)
    /\ UNCHANGED <<cpPool, cpSide, CpOthers>>

CpRangeNext ==
    \/ SharesForCostNonPositive
    \/ CostForSharesNonPositive

SpecRange == CpRangeInit /\ [][CpRangeNext]_vars

\* C12: for every pool and side, sharesForCost returns 0 whenever cost <= 0 and
\* costForShares returns 0 whenever shares <= 0.
C12_Sentinels ==
    \A i \in 1..Len(cpCalls) :
        (cpCalls[i].op \in {"sharesForCost", "costForShares"} /\ cpCalls[i].arg <= 0)
            => cpCalls[i].res = 0

\* A negative cost and then a negative share count were passed on a pool that
\* is not balanced.
C12_Witness ==
    /\ Len(cpCalls) = 2
    /\ CpPrev.op = "sharesForCost" /\ CpPrev.arg < 0 /\ CpPrev.res = 0
    /\ CpLast.op = "costForShares" /\ CpLast.arg < 0 /\ CpLast.res = 0
    /\ cpPool.y > cpPool.n /\ cpPool.n > 0

\* C13: reserves stay strictly positive: every pool of every PoolSet that
\* simulateMultiChoiceYesBuy, simulateMultiChoiceTrade, multiChoiceCostForShares
\* or analyzeCorrelationBet was given or has returned has both reserves above 0,
\* on either side and along a chain of calls.
C13_ReservesPositive ==
    \A ref \in DOMAIN hpHeap :
        \A c \in DOMAIN hpHeap[ref] :
            hpHeap[ref][c].YES > 0 /\ hpHeap[ref][c].NO > 0

\* simulateMultiChoiceYesBuy bought NO in the other answers and YES in the
\* target of a PoolSet an earlier trade had returned: the YES reserve of the
\* target and the NO reserve of another answer went down.
C13_Witness ==
    /\ hpCalls = 2
    /\ hpLast.op = "simulateMultiChoiceYesBuy"
    /\ hpLast.allPools = 2 /\ hpLast.newPools = 3
    /\ \E t \in Cells, o \in Cells :
          /\ hpHeap[3][t].YES < hpHeap[2][t].YES
          /\ hpHeap[3][o].NO < hpHeap[2][o].NO

(***************************************************************************)
(* SpecInverse: multiChoiceCostForShares applied to bounded PoolSets, the  *)
(* PoolSets of SpecMulti and one of thin target liquidity.  mcCall is the  *)
(* last call with its result.                                              *)
(***************************************************************************)
McInversePoolSets ==
    McPoolSets \cup
        {[c \in Cells |-> IF c = "a_yes_b_yes" THEN Pool(10, 10) ELSE Pool(50, 50)]}

\* Share targets: 10 and 20 shares.
McInverseShares == {10 * Scale, 20 * Scale}

McInverseInit ==
    /\ CpIdle /\ CoIdle /\ HgIdle /\ HpIdle /\ SrIdle /\ MgIdle /\ VlIdle /\ LmIdle /\ PnIdle /\ CdIdle
    /\ mcPools \in McInversePoolSets
    /\ mcCall = <<>>
    /\ mcLegs = 0

MultiChoiceCostForSharesCall ==
    /\ \E targetId \in Cells, targetShares \in McInverseShares, position \in Sides :
          mcCall' = [op |-> "multiChoiceCostForShares", targetId |-> targetId,
                     arg |-> targetShares, position |-> position,
                     res |-> multiChoiceCostForShares(mcPools, targetId, targetShares,
                                                      position)]
    /\ UNCHANGED <<mcPools, mcLegs, McOthers>>

McInverseNext ==
    \/ MultiChoiceCostForSharesCall

SpecInverse == McInverseInit /\ [][McInverseNext]_vars

McIsYesCost ==
    /\ mcCall # <<>>
    /\ mcCall.op = "multiChoiceCostForShares"
    /\ mcCall.position = "YES"

\* The tolerance of the inverse: 1% of the share target, and what the
\* arithmetic cannot tell apart: costs are told apart to a hundredth, and a
\* hundredth more or less buys 1/p shares' hundredths at the target's price p;
\* twice that, and two for the rounding of the shares themselves.
InverseTol(pools, targetId, targetShares) ==
    targetShares \div 100
        + 2 + (2 * (pools[targetId].YES + pools[targetId].NO)) \div pools[targetId].NO

\* C14: multiChoiceCostForShares inverts the equilibrium simulator: for every
\* PoolSet with positive reserves, every target and every targetShares > 0, the
\* returned cost c satisfies simulateMultiChoiceTrade(pools, target, c,
\* 'YES').shares = targetShares within the tolerance, and the returned newPools
\* are the pools of that same simulation.
C14_CostInvertsTrade ==
    McIsYesCost =>
        LET sim == simulateMultiChoiceTrade(mcPools, mcCall.targetId,
                                            mcCall.res.cost, "YES")
        IN /\ Abs(sim.shares - mcCall.arg) <= InverseTol(mcPools, mcCall.targetId, mcCall.arg)
           /\ mcCall.res.newPools = sim.newPools

(***************************************************************************)
(* Claims on the order in which the legs of a hedge plan are priced        *)
(***************************************************************************)
\* The two hedge legs priced one after the other from the market's pools: the
\* results of the call for hedge leg 1 and of the call for hedge leg 2 on the
\* pools the first returned.
LegsInTurn(pools, condType, amount) ==
    Bind(multiChoiceCostForShares(pools, HEDGE_CONFIG[condType].hedgeCells[1], amount, "YES"),
         LAMBDA first :
    Bind(multiChoiceCostForShares(first.newPools, HEDGE_CONFIG[condType].hedgeCells[2],
                                  amount, "YES"),
         LAMBDA second : <<first, second>>))

\* C15: in a hedge plan the legs are priced in the order hedge leg 1, hedge leg
\* 2, target, each against the pools produced by the previous leg: hedge leg 2
\* is costed against the PoolSet returned for hedge leg 1, and the target spend
\* (budget minus total hedge cost) is priced against the PoolSet returned for
\* hedge leg 2, never against the original snapshot.
C15_LegsPricedInTurn ==
    /\ tradePlan # <<>> =>
          Bind(LegsInTurn(marketPools, currentCondType, tradePlan.amount),
               LAMBDA legs :
                  /\ tradePlan.hedgeCellCosts = <<legs[1].cost, legs[2].cost>>
                  /\ tradePlan.targetAmount =
                        Max2(0, tradePlan.amount - (legs[1].cost + legs[2].cost))
                  /\ tradePlan.targetAmount > 0 =>
                        tradePlan.targetShares =
                            simulateMultiChoiceTrade(legs[2].newPools, tradePlan.targetCell,
                                                     tradePlan.targetAmount, "YES").shares)
    /\ execPlan # <<>> =>
          Bind(LegsInTurn(marketPools, currentCondType, execPlan.amount),
               LAMBDA legs :
                  /\ execPlan.hedgeBets[1].cellCost = Max2(Scale, legs[1].cost)
                  /\ execPlan.hedgeBets[2].cellCost = Max2(Scale, legs[2].cost)
                  /\ execPlan.totalHedgeCost = legs[1].cost + legs[2].cost)

\* A preview and an execution plan whose second hedge leg and target would be
\* priced differently against the original snapshot.
C15_Witness ==
    /\ tradePlan # <<>>
    /\ execPlan # <<>>
    /\ LET cells == HEDGE_CONFIG[currentCondType].hedgeCells
       IN /\ multiChoiceCostForShares(marketPools, cells[2], tradePlan.amount, "YES").cost
                # tradePlan.hedgeCellCosts[2]
          /\ tradePlan.targetAmount > 0
          /\ simulateMultiChoiceTrade(marketPools, tradePlan.targetCell,
                                      tradePlan.targetAmount, "YES").shares
                # tradePlan.targetShares
          /\ execPlan.hedgeBets[2].cellCost
                # Max2(Scale, multiChoiceCostForShares(marketPools, cells[2],
                                                       execPlan.amount, "YES").cost)

(***************************************************************************)
(* Claims on the commitment of a multi-leg plan                            *)
(***************************************************************************)
\* C16: a multi-leg plan is never partially committed: at the end of every
\* execution of a plan (here executeConditionalBet: the step that clears the
\* execution, by success or by a failed placement) either all legs of the plan
\* have been placed with the venue or none has.
C16_AllOrNothing ==
    [][(execPlan # <<>> /\ execPlan' = <<>>) => execPlaced \in {0, LegsPerBet}]_vars

(***************************************************************************)
(* Marginal bets: openMarginalBetPanel, updateMarginalTradePreview,        *)
(* executeMarginalBet                                                      *)
(***************************************************************************)
MarginalTypes == {"a", "not_a", "b", "not_b"}

MARGINAL_CONFIG ==
    [marginalType \in MarginalTypes |->
        CASE marginalType = "a" -> [cells |-> <<"a_yes_b_yes", "a_yes_b_no">>]
          [] marginalType = "not_a" -> [cells |-> <<"a_no_b_yes", "a_no_b_no">>]
          [] marginalType = "b" -> [cells |-> <<"a_yes_b_yes", "a_no_b_yes">>]
          [] marginalType = "not_b" -> [cells |-> <<"a_yes_b_no", "a_no_b_no">>]]

\* amount / config.cells.length
PerCell(amount, cells) == RDiv(amount, Len(cells))

\* What updateMarginalTradePreview renders: one step per cell with its estimated
\* shares and the amount per cell, and the total.  The markup of a step has no
\* below-minimum class and no warning follows the steps.
MarginalTradePreview(pools, marginalType, value) ==
    LET config == MARGINAL_CONFIG[marginalType]
        amount == PanelAmount(value)
        perCellAmount == PerCell(amount, config.cells)
    IN [amount |-> amount,
        perCellAmount |-> perCellAmount,
        steps |-> [i \in DOMAIN config.cells |->
                     [cellName |-> config.cells[i],
                      estShares |-> sharesForCost(pools[config.cells[i]].YES,
                                                  pools[config.cells[i]].NO,
                                                  perCellAmount, "YES"),
                      amount |-> perCellAmount,
                      belowMin |-> FALSE]],
        minBetWarning |-> FALSE,
        totalCost |-> amount]

\* executeMarginalBet: Math.max(1, amount / config.cells.length)
MarginalPerCellAmount(amount, cells) == AtLeastMinBet(PerCell(amount, cells))

(***************************************************************************)
(* SpecMarginal: a market is loaded; the user opens a marginal panel,      *)
(* types an amount, and places the bet.                                    *)
(***************************************************************************)
MgMaxHalves == 5

\* Values of the amount field: 0 (read as 10) to MgMaxHalves halves.
MgAmountFields == {(h * Scale) \div 2 : h \in 0..MgMaxHalves}

MgInit ==
    /\ CpIdle /\ McIdle /\ CoIdle /\ HgIdle /\ HpIdle /\ SrIdle /\ VlIdle /\ LmIdle /\ PnIdle /\ CdIdle
    /\ mgPools \in CondPoolSets
    /\ currentMarginalType = "null"
    /\ mgBetAmount \in MgAmountFields
    /\ mgTradePlan = <<>>
    /\ mgExec = <<>>
    /\ mgPlaced = <<>>

openMarginalBetPanel ==
    /\ mgExec = <<>>
    /\ \E marginalType \in MarginalTypes :
        /\ currentMarginalType' = marginalType
        /\ mgTradePlan' = MarginalTradePreview(mgPools, marginalType, mgBetAmount)
    /\ UNCHANGED <<mgPools, mgBetAmount, mgExec, mgPlaced, MgOthers>>

\* The input listener of the amount field: updatePanelPreview redraws the
\* marginal preview when a marginal panel is open.
MarginalBetAmountInput ==
    /\ mgExec = <<>>
    /\ \E value \in MgAmountFields :
        /\ mgBetAmount' = value
        /\ mgTradePlan' = IF currentMarginalType # "null"
                          THEN MarginalTradePreview(mgPools, currentMarginalType, value)
                          ELSE mgTradePlan
    /\ UNCHANGED <<mgPools, currentMarginalType, mgExec, mgPlaced, MgOthers>>

closeMarginalBetPanel ==
    /\ mgExec = <<>>
    /\ currentMarginalType # "null"
    /\ currentMarginalType' = "null"
    /\ mgTradePlan' = <<>>
    /\ UNCHANGED <<mgPools, mgBetAmount, mgExec, mgPlaced, MgOthers>>

\* executeMarginalBet up to its first await; without an API key it only shows
\* an error.
ExecuteMarginalBet ==
    /\ mgExec = <<>>
    /\ currentMarginalType # "null"
    /\ \E hasApiKey \in BOOLEAN :
        IF hasApiKey
        THEN /\ mgExec' = [cells |-> MARGINAL_CONFIG[currentMarginalType].cells,
                           perCellAmount |->
                               MarginalPerCellAmount(PanelAmount(mgBetAmount),
                                   MARGINAL_CONFIG[currentMarginalType].cells)]
             /\ mgPlaced' = <<>>
        ELSE UNCHANGED <<mgExec, mgPlaced>>
    /\ UNCHANGED <<mgPools, currentMarginalType, mgBetAmount, mgTradePlan, MgOthers>>

\* One placeBet resolves: the venue has the bet.
MarginalPlaceBetResolves ==
    /\ mgExec # <<>>
    /\ Len(mgPlaced) < Len(mgExec.cells)
    /\ mgPlaced' = Append(mgPlaced, [cellName |-> mgExec.cells[Len(mgPlaced) + 1],
                                     amount |-> mgExec.perCellAmount])
    /\ UNCHANGED <<mgPools, currentMarginalType, mgBetAmount, mgTradePlan, mgExec,
                   MgOthers>>

\* One placeBet throws (or the cell has no answer id): the error is shown and
\* the panel stays as it was.
MarginalPlaceBetThrows ==
    /\ mgExec # <<>>
    /\ Len(mgPlaced) < Len(mgExec.cells)
    /\ mgExec' = <<>>
    /\ UNCHANGED <<mgPools, currentMarginalType, mgBetAmount, mgTradePlan, mgPlaced,
                   MgOthers>>

\* All bets placed: the panel closes and loadMarket fetches the pools again.
ExecuteMarginalBetDone ==
    /\ mgExec # <<>>
    /\ Len(mgPlaced) = Len(mgExec.cells)
    /\ currentMarginalType' = "null"
    /\ mgTradePlan' = <<>>
    /\ mgExec' = <<>>
    /\ mgPools' \in CondPoolSets
    /\ UNCHANGED <<mgBetAmount, mgPlaced, MgOthers>>

MgNext ==
    \/ openMarginalBetPanel
    \/ MarginalBetAmountInput
    \/ closeMarginalBetPanel
    \/ ExecuteMarginalBet
    \/ MarginalPlaceBetResolves
    \/ MarginalPlaceBetThrows
    \/ ExecuteMarginalBetDone

SpecMarginal == MgInit /\ [][MgNext]_vars

\* C17: whenever a leg's computed cost is below the 1-unit minimum stake, the
\* plan reports that leg as below-minimum before execution, and the leg is never
\* submitted at a silently rounded-up amount (here for the marginal plan: the
\* plan is the preview on screen when the execution starts).
C17_BelowMinimumReported ==
    mgExec # <<>> =>
        \A i \in DOMAIN mgTradePlan.steps :
            /\ mgTradePlan.steps[i].amount < Scale => mgTradePlan.steps[i].belowMin
            /\ \/ mgTradePlan.steps[i].belowMin
               \/ mgTradePlan.minBetWarning
               \/ i \notin DOMAIN mgPlaced
               \/ mgPlaced[i].amount = mgTradePlan.steps[i].amount

(***************************************************************************)
(* Claims on the direction of a correlation plan                           *)
(***************************************************************************)
\* The scale field of the correlation panel: 1 and 10 shares.
CoScales == {Scale, 10 * Scale}

DiagonalShares(shares) == shares.a_yes_b_yes + shares.a_no_b_no
OffDiagonalShares(shares) == shares.a_yes_b_no + shares.a_no_b_yes

\* The solver has returned weights by Cramer's rule for joint probabilities that
\* are all positive.
CoNonDegenerate ==
    /\ coPc = "returned"
    /\ ~DetIsDegenerate(coDet)
    /\ \A c \in Cells : coProbs[c] > 0

\* C18: for every non-degenerate joint probability assignment and every positive
\* scale, analyzeCorrelationBet with direction 'long' returns a share plan that
\* holds more shares in the diagonal cells (a_yes_b_yes plus a_no_b_no) than in
\* the off-diagonal cells (a_yes_b_no plus a_no_b_yes); with direction 'short'
\* the off-diagonal cells hold more.
C18_DirectionProfits ==
    CoNonDegenerate =>
        \A scale \in CoScales :
            /\ DiagonalShares(CorrelationShares(coProbs, scale, "long"))
                  > OffDiagonalShares(CorrelationShares(coProbs, scale, "long"))
            /\ OffDiagonalShares(CorrelationShares(coProbs, scale, "short"))
                  > DiagonalShares(CorrelationShares(coProbs, scale, "short"))

(***************************************************************************)
(* API dry-run validation: validateWithApi, validateDirectBet,             *)
(* validateConditionalBet, validateMarginalBet, validateCorrelationBet,    *)
(* placeBetDryRun                                                          *)
(***************************************************************************)
\* A leg of a validation: the cell, the amount to quote and the local figure the
\* quoted shares are compared with.
Leg(cellName, amount, localShares) ==
    [cellName |-> cellName, amount |-> amount, localShares |-> localShares]

\* validateDirectBet: the local estimate of the single leg.
DirectValidationLegs(pools, cellType, amount) ==
    <<Leg(cellType, amount,
          sharesForCost(pools[cellType].YES, pools[cellType].NO, amount, "YES"))>>

\* validateConditionalBet: each hedge leg is costed against the original pools
\* and quoted at that cost, its local figure being hedgeSharesPerCell; the
\* target is quoted at what the budget leaves.
ConditionalValidationLegs(pools, condType, direction, amount) ==
    LET config == HEDGE_CONFIG[condType]
        targetCell == IF direction = "yes" THEN config.targetYes ELSE config.targetNo
    IN Bind(multiChoiceCostForShares(copyPools(pools), config.hedgeCells[1], amount, "YES"),
            LAMBDA first :
       Bind(multiChoiceCostForShares(copyPools(pools), config.hedgeCells[2], amount, "YES"),
            LAMBDA second :
       Bind(Max2(0, amount - (first.cost + second.cost)), LAMBDA targetAmount :
            <<Leg(config.hedgeCells[1], first.cost, amount),
              Leg(config.hedgeCells[2], second.cost, amount),
              Leg(targetCell, targetAmount,
                  IF targetAmount > 0
                  THEN simulateMultiChoiceTrade(copyPools(pools), targetCell,
                                                targetAmount, "YES").shares
                  ELSE 0)>>)))

\* validateMarginalBet: each cell is quoted at amount / config.cells.length.
MarginalValidationLegs(pools, marginalType, amount) ==
    LET cells == MARGINAL_CONFIG[marginalType].cells
        perCellAmount == PerCell(amount, cells)
    IN [i \in DOMAIN cells |->
          Leg(cells[i], perCellAmount,
              sharesForCost(pools[cells[i]].YES, pools[cells[i]].NO, perCellAmount, "YES"))]

\* validateCorrelationBet: the cells of analysis.tradeOrder, without those whose
\* cost is missing or below 1.
RECURSIVE CorrelationValidationLegs(_, _)
CorrelationValidationLegs(analysis, i) ==
    IF i > Len(analysis.tradeOrder) THEN <<>>
    ELSE LET cellName == analysis.tradeOrder[i]
             cost == analysis.costs[cellName]
         IN IF cost < Scale
            THEN CorrelationValidationLegs(analysis, i + 1)
            ELSE <<Leg(cellName, cost, 0)>> \o CorrelationValidationLegs(analysis, i + 1)

\* canExecute of analyzeCorrelationBet: no cost between 0.001 and 1, and a cost
\* above 0.001.
canExecute(costs) ==
    /\ \A c \in Cells : ~(costs[c] * 1000 > Scale /\ costs[c] < Scale)
    /\ \E c \in Cells : costs[c] * 1000 > Scale

\* apiResult.shares || 0
ApiShares(apiResult) == IF apiResult.hasShares THEN apiResult.shares ELSE 0

RECURSIVE SumOfSeq(_)
SumOfSeq(s) == IF s = <<>> THEN 0 ELSE Head(s) + SumOfSeq(Tail(s))

\* totalError: the sum over the legs of |local - api|.
TotalError(legs, api) ==
    SumOfSeq([i \in DOMAIN legs |-> Abs(legs[i].localShares - ApiShares(api[i]))])

\* totalShares: the sum over the legs of the local figure.
TotalShares(legs) == SumOfSeq([i \in DOMAIN legs |-> legs[i].localShares])

\* The tolerance in percent: errorPct < 1, < 5, < 2.
Tolerance(mode) ==
    CASE mode = "direct" -> 1
      [] mode = "conditional" -> 5
      [] mode = "marginal" -> 2

\* isMatch.  The direct bet divides the error by the API's shares when they are
\* positive; the plans divide the total error by the total of the local figures
\* when it is positive; otherwise errorPct is 0.
isMatch(mode, legs, api) ==
    IF mode = "direct"
    THEN IF ApiShares(api[1]) > 0
         THEN TotalError(legs, api) * 100 < Tolerance(mode) * ApiShares(api[1])
         ELSE 0 < Tolerance(mode)
    ELSE IF TotalShares(legs) > 0
         THEN TotalError(legs, api) * 100 < Tolerance(mode) * TotalShares(legs)
         ELSE 0 < Tolerance(mode)

(***************************************************************************)
(* SpecValidate: a panel is open on a loaded market and the user asks for  *)
(* a validation; the API answers each dry run with shares, with a response *)
(* that has no shares field, or with an error.                             *)
(***************************************************************************)
VlAmountFields == {0, Scale}

\* Analyses the correlation panel may hold: two or three traded cells, each
\* costing nothing or 2.
VlAnalyses ==
    {[tradeOrder |-> o, costs |-> c] :
        o \in {<<"a_yes_b_no", "a_no_b_yes">>,
               <<"a_no_b_no", "a_yes_b_no", "a_no_b_yes">>},
        c \in [Cells -> {0, 2 * Scale}]}

VlPanels ==
    {[mode |-> "direct", type |-> c, direction |-> "yes", analysis |-> <<>>] : c \in Cells}
    \cup {[mode |-> "conditional", type |-> t, direction |-> d, analysis |-> <<>>] :
            t \in CondTypes, d \in Directions}
    \cup {[mode |-> "marginal", type |-> t, direction |-> "yes", analysis |-> <<>>] :
            t \in MarginalTypes}
    \cup {[mode |-> "correlation", type |-> "none", direction |-> "yes", analysis |-> a] :
            a \in {x \in VlAnalyses :
                     \A c \in Cells : x.costs[c] > 0 =>
                        \E i \in DOMAIN x.tradeOrder : x.tradeOrder[i] = c}}

\* What a dry run may answer for a leg whose local figure is localShares.
DryRunResponses(localShares) ==
    {[hasShares |-> FALSE, shares |-> 0]}
    \cup {[hasShares |-> TRUE, shares |-> s] :
            s \in {0, localShares, RDiv(localShares * 9, 10), 2 * Scale}}

VlInit ==
    /\ CpIdle /\ McIdle /\ CoIdle /\ HgIdle /\ HpIdle /\ SrIdle /\ MgIdle /\ LmIdle /\ PnIdle /\ CdIdle
    /\ vlPools \in CondPoolSets
    /\ vlPanel \in VlPanels
    /\ vlAmount \in VlAmountFields
    /\ vlPc = "idle"
    /\ vlLegs = <<>>
    /\ vlApi = <<>>
    /\ vlStatus = "none"

\* The legs and the status once every leg of legs has its response in api.
Settled(legs, api) ==
    IF vlPanel.mode = "correlation"
    THEN IF \A i \in DOMAIN api : api[i].ok THEN "validated" ELSE "error"
    ELSE IF isMatch(vlPanel.mode, legs, api) THEN "validated" ELSE "mismatch"

\* validateWithApi up to its first await; without an API key it only shows an
\* error.
ValidateWithApi ==
    /\ vlPc = "idle"
    /\ vlPanel.mode # "correlation"
    /\ \E hasApiKey \in BOOLEAN :
        IF hasApiKey
        THEN /\ vlLegs' =
                  CASE vlPanel.mode = "direct" ->
                          DirectValidationLegs(vlPools, vlPanel.type, PanelAmount(vlAmount))
                    [] vlPanel.mode = "conditional" ->
                          ConditionalValidationLegs(vlPools, vlPanel.type, vlPanel.direction,
                                                    PanelAmount(vlAmount))
                    [] vlPanel.mode = "marginal" ->
                          MarginalValidationLegs(vlPools, vlPanel.type, PanelAmount(vlAmount))
             /\ vlApi' = <<>>
             /\ vlStatus' = "pending"
             /\ vlPc' = "awaiting"
        ELSE UNCHANGED <<vlLegs, vlApi, vlStatus, vlPc>>
    /\ UNCHANGED <<vlPools, vlPanel, vlAmount, VlOthers>>

\* validateCorrelationBet up to its first await: it returns at once on an
\* analysis that cannot be executed, shows 'API key required' without a key, and
\* reports success when no cell is left to quote.
ValidateCorrelationBet ==
    /\ vlPc = "idle"
    /\ vlPanel.mode = "correlation"
    /\ canExecute(vlPanel.analysis.costs)
    /\ \E hasApiKey \in BOOLEAN :
        IF hasApiKey
        THEN LET legs == CorrelationValidationLegs(vlPanel.analysis, 1)
             IN /\ vlLegs' = legs
                /\ vlApi' = <<>>
                /\ vlStatus' = IF legs = <<>> THEN "validated" ELSE "pending"
                /\ vlPc' = IF legs = <<>> THEN "returned" ELSE "awaiting"
        ELSE /\ vlStatus' = "error"
             /\ UNCHANGED <<vlLegs, vlApi, vlPc>>
    /\ UNCHANGED <<vlPools, vlPanel, vlAmount, VlOthers>>

\* placeBetDryRun resolves with the response of the API; after the last leg the
\* handler compares and shows the status.
PlaceBetDryRunResolves ==
    /\ vlPc = "awaiting"
    /\ \E response \in DryRunResponses(vlLegs[Len(vlApi) + 1].localShares) :
        LET api == Append(vlApi, [ok |-> TRUE, hasShares |-> response.hasShares,
                                  shares |-> response.shares])
        IN /\ vlApi' = api
           /\ IF Len(api) = Len(vlLegs)
              THEN /\ vlStatus' = Settled(vlLegs, api)
                   /\ vlPc' = "returned"
              ELSE UNCHANGED <<vlStatus, vlPc>>
    /\ UNCHANGED <<vlPools, vlPanel, vlAmount, vlLegs, VlOthers>>

\* placeBetDryRun throws on a response that is not ok.  validateWithApi catches
\* the error outside the handlers and shows '(error)'; validateCorrelationBet
\* catches it inside its loop, records the failure and goes on to the next cell.
PlaceBetDryRunThrows ==
    /\ vlPc = "awaiting"
    /\ LET api == Append(vlApi, [ok |-> FALSE, hasShares |-> FALSE, shares |-> 0])
       IN /\ vlApi' = api
          /\ IF vlPanel.mode = "correlation"
             THEN IF Len(api) = Len(vlLegs)
                  THEN /\ vlStatus' = Settled(vlLegs, api)
                       /\ vlPc' = "returned"
                  ELSE UNCHANGED <<vlStatus, vlPc>>
             ELSE /\ vlStatus' = "error"
                  /\ vlPc' = "returned"
    /\ UNCHANGED <<vlPools, vlPanel, vlAmount, vlLegs, VlOthers>>

VlNext ==
    \/ ValidateWithApi
    \/ ValidateCorrelationBet
    \/ PlaceBetDryRunResolves
    \/ PlaceBetDryRunThrows

SpecValidate == VlInit /\ [][VlNext]_vars

\* C19: a leg or plan is classified as matching (validated) only if the relative
\* error between the locally simulated shares and the externally quoted shares
\* is below the tolerance (1% for a direct single-leg bet, 2% for a marginal
\* plan, 5% for a conditional plan), for all local and external values,
\* including an external quote of 0 shares or a response without a shares
\* field.  The error is taken relative to the larger of the two totals.
C19_MatchWithinTolerance ==
    (/\ vlPc = "returned"
     /\ vlPanel.mode \in {"direct", "conditional", "marginal"}
     /\ vlStatus = "validated") =>
        \/ TotalError(vlLegs, vlApi) = 0
        \/ TotalError(vlLegs, vlApi) * 100
              < Tolerance(vlPanel.mode)
                  * Max2(TotalShares(vlLegs),
                         SumOfSeq([i \in DOMAIN vlApi |-> ApiShares(vlApi[i])]))

\* C20: when the quote request for a leg fails during validation, reconciliation
\* of that plan is aborted and reported: no quote is requested for any later leg
\* of the plan and the status shown at the end is an error (never 'validated');
\* for direct, conditional, marginal and correlation validation.
C20_FailedQuoteAborts ==
    \A i \in DOMAIN vlApi :
        ~vlApi[i].ok =>
            /\ i = Len(vlApi)
            /\ vlPc # "awaiting"
            /\ vlStatus = "error"

(***************************************************************************)
(* Claims on the NO side of the equilibrium simulator                      *)
(***************************************************************************)
McIsNoTrade ==
    /\ mcCall # <<>>
    /\ mcCall.op = "simulateMultiChoiceTrade"
    /\ mcCall.position = "NO"

\* C24: for a NO-side purchase, simulateMultiChoiceTrade behaves exactly as the
\* binary CPMM core on the target pool: the returned shares equal
\* sharesForCost(targetPool, cost, 'NO'), the target pool in the result equals
\* poolAfterTrade(targetPool, cost, 'NO'), and the other pools are returned
\* unchanged.
C24_NoSideIsBinary ==
    McIsNoTrade =>
        LET pool == mcPools[mcCall.targetId]
            newPool == poolAfterTrade(pool.YES, pool.NO, mcCall.arg, "NO")
        IN /\ mcCall.res.shares = sharesForCost(pool.YES, pool.NO, mcCall.arg, "NO")
           /\ mcCall.res.newPools[mcCall.targetId] = [YES |-> newPool.y, NO |-> newPool.n]
           /\ \A c \in Cells \ {mcCall.targetId} : mcCall.res.newPools[c] = mcPools[c]

\* A NO purchase that bought shares and moved the target pool.
C24_Witness ==
    /\ McIsNoTrade
    /\ mcCall.res.shares > mcCall.arg
    /\ mcCall.res.newPools[mcCall.targetId].YES > mcPools[mcCall.targetId].YES
    /\ mcCall.res.newPools[mcCall.targetId].NO < mcPools[mcCall.targetId].NO

(***************************************************************************)
(* Claims on the share counts of a correlation plan                        *)
(***************************************************************************)
CorrDirections == {"long", "short"}

\* C25: for every joint probability assignment, direction and positive scale
\* (share ceiling), the per-outcome share counts produced by
\* analyzeCorrelationBet after the long-only shift and scaling are all >= 0 and
\* <= scale, the smallest of the four is 0 and the largest equals scale.
C25_SharesWithinScale ==
    coPc = "returned" =>
        \A scale \in CoScales, direction \in CorrDirections :
            LET shares == CorrelationShares(coProbs, scale, direction)
            IN /\ \A c \in Cells : 0 <= shares[c] /\ shares[c] <= scale
               /\ \E c \in Cells : shares[c] = 0
               /\ \E c \in Cells : shares[c] = scale

\* The solver returned weights of both signs, so that the plan of either
\* direction is shifted, and a cell holds a share count strictly between 0 and
\* the scale.
C25_Witness ==
    /\ coPc = "returned"
    /\ \E i \in 1..4 : coWeights.n[i] * coWeights.d < 0
    /\ \E i \in 1..4 : coWeights.n[i] * coWeights.d > 0
    /\ \E scale \in CoScales, c \in Cells :
          LET shares == CorrelationShares(coProbs, scale, "short")
          IN 0 < shares[c] /\ shares[c] < scale

(***************************************************************************)
(* Claims on the neutrality of a hedge plan                                *)
(***************************************************************************)
\* The shares the two hedge bets of the running execution buy, as the simulator
\* prices the submitted amounts one after the other on the market's pools.
SubmittedHedgeShares ==
    Bind(simulateMultiChoiceTrade(copyPools(marketPools), execPlan.hedgeBets[1].cellName,
                                  execPlan.hedgeBets[1].cellCost, "YES"),
         LAMBDA first :
    Bind(simulateMultiChoiceTrade(first.newPools, execPlan.hedgeBets[2].cellName,
                                  execPlan.hedgeBets[2].cellCost, "YES"),
         LAMBDA second : <<first.shares, second.shares>>))

\* C22: in a hedge plan the position is neutral when the hedged condition
\* occurs: in either hedge outcome the payout (the shares held in that hedge
\* cell, each paying 1) equals the total amount the plan spends, so the net
\* payout is 0 as displayed for NEUTRAL cells, for every pool state and budget.
\* Checked on the legs executeConditionalBet submits, to within a tenth of the
\* amount spent.
C22_HedgeNeutral ==
    execPlan # <<>> =>
        \A i \in 1..2 :
            /\ tradePlan.payouts[execPlan.hedgeBets[i].cellName] = "NEUTRAL"
            /\ Abs(SubmittedHedgeShares[i] - ExecTotal) * 10 <= ExecTotal

(***************************************************************************)
(* Claims on the pricing of a marginal plan                                *)
(***************************************************************************)
\* The shares of the two legs of a marginal plan priced one after the other
\* through the equilibrium simulator.
MarginalSharesInTurn(pools, cells, perCellAmount) ==
    Bind(simulateMultiChoiceTrade(copyPools(pools), cells[1], perCellAmount, "YES"),
         LAMBDA first :
    Bind(simulateMultiChoiceTrade(first.newPools, cells[2], perCellAmount, "YES"),
         LAMBDA second : <<first.shares, second.shares>>))

\* C23: a marginal (row/column) plan splits the requested total evenly over its
\* two cells and prices the legs sequentially through the equilibrium
\* simulator: each leg's amount is half the requested total, and the second
\* leg's shares are computed against the pools that result from the first leg
\* (with auto-arbitrage), not against the original snapshot.  Shares are
\* compared to within 4%.
C23_MarginalPricedInTurn ==
    mgTradePlan # <<>> =>
        LET cells == MARGINAL_CONFIG[currentMarginalType].cells
            inTurn == MarginalSharesInTurn(mgPools, cells, mgTradePlan.perCellAmount)
        IN /\ \A i \in DOMAIN mgTradePlan.steps :
                 Abs(2 * mgTradePlan.steps[i].amount - mgTradePlan.amount) <= 1
           /\ Abs(mgTradePlan.steps[2].estShares - inTurn[2]) * 25 <= inTurn[2]

(***************************************************************************)
(* SpecPlan: analyzeCorrelationBet applied to the market's pools (object 1 *)
(* of the heap) for bounded joint probabilities; hpLast is the analysis    *)
(* the last call returned.                                                 *)
(***************************************************************************)
\* The reported cost of each leg of the loop over cellOrder, from leg i on.
RECURSIVE LegCosts(_, _, _, _, _)
LegCosts(heap, simPools, shares, order, i) ==
    IF i > Len(order) THEN <<>>
    ELSE Bind(AnalyzeLeg(heap, simPools, order[i], shares[order[i]]), LAMBDA leg :
            <<leg.cost>> \o LegCosts(leg.heap, leg.simPools, shares, order, i + 1))

\* The shares, tradeOrder and costs of the analysis analyzeCorrelationBet
\* returns (costs in the order of tradeOrder).
CorrelationAnalysis(heap, pools, probs, scale, direction) ==
    Bind(CorrelationShares(probs, scale, direction), LAMBDA shares :
    Bind(copyPoolsRef(heap, pools), LAMBDA c :
    Bind(cellOrder(c.heap[c.ref], shares), LAMBDA order :
        [op |-> "analyzeCorrelationBet",
         probs |-> probs, scale |-> scale, direction |-> direction,
         shares |-> shares,
         tradeOrder |-> order,
         costs |-> LegCosts(c.heap, c.ref, shares, order, 1)])))

PlanMinProb == ProbDen \div 5

\* Joint probabilities with every cell at PlanMinProb / ProbDen or more.
PlanProbs == {p \in JointProbs : \A c \in Cells : p[c] >= PlanMinProb}

PlanPoolSets == HpPoolSets \cup {[c \in Cells |-> Pool(150, 50)]}

PlanScales == {20 * Scale}

PlanInit ==
    /\ CpIdle /\ McIdle /\ CoIdle /\ HgIdle /\ SrIdle /\ MgIdle /\ VlIdle /\ LmIdle /\ PnIdle /\ CdIdle
    /\ hpHeap \in {<<ps>> : ps \in PlanPoolSets}
    /\ hpOriginal = hpHeap
    /\ hpLast = <<>>
    /\ hpCalls = 0

\* updateCorrelationBetPanel: the analysis of the market's pools is computed and
\* kept (once per behaviour: a later analysis of the same market yields one of
\* the same results).
AnalyzeCorrelationBetCall ==
    /\ hpCalls = 0
    /\ \E probs \in PlanProbs, scale \in PlanScales, direction \in CorrDirections :
          hpLast' = CorrelationAnalysis(hpHeap, 1, probs, scale, direction)
    /\ hpCalls' = 1
    /\ UNCHANGED <<hpHeap, hpOriginal, HpOthers>>

PlanNext ==
    \/ AnalyzeCorrelationBetCall

SpecPlan == PlanInit /\ [][PlanNext]_vars

\* C26: analyzeCorrelationBet orders the legs from cheapest to most expensive:
\* tradeOrder contains exactly the cells whose share count is at least 0.001,
\* and for any two consecutive legs in tradeOrder the earlier leg's reported
\* cost (costs[cell]) is less than or equal to the later leg's reported cost
\* (up to two hundredths).
C26_CheapestFirst ==
    hpLast # <<>> =>
        /\ {hpLast.tradeOrder[i] : i \in DOMAIN hpLast.tradeOrder}
              = {c \in Cells : IsTraded(hpLast.shares[c])}
        /\ \A i \in DOMAIN hpLast.tradeOrder, j \in DOMAIN hpLast.tradeOrder :
              i # j => hpLast.tradeOrder[i] # hpLast.tradeOrder[j]
        /\ \A i \in 1..(Len(hpLast.costs) - 1) :
              hpLast.costs[i] <= hpLast.costs[i + 1] + 2

(***************************************************************************)
(* Loading a market, and the analysis the correlation panel keeps          *)
(*                                                                         *)
(* loadMarket is asynchronous: it sets currentMarketConfig, awaits the     *)
(* market's fetch, sets currentMarket and marketProbabilities from the     *)
(* response and, with an API key, awaits the positions.  Several calls can *)
(* be in progress, and their responses arrive in any order.  A market is   *)
(* named by its slug; the reserves the server holds for it are named by    *)
(* the number of trades the server has applied to it, so a snapshot is a   *)
(* market with the number of trades its reserves reflect.  The analysis    *)
(* kept in currentCorrelationAnalysis carries the snapshot its costs were  *)
(* computed from.                                                          *)
(***************************************************************************)
Markets == {"market_1", "market_2"}

\* Calls of loadMarket in progress at a time, trades the server applies to a
\* market.
LmMaxLoads == 2
LmMaxTrades == 2

\* What the fetch of a market yields: a market with 4 answers, a failed
\* request, a resolved market, a market whose answers are not 4.
FetchMarketResponses == {"ok", "error", "resolved", "answers"}

RemoveAt(s, i) == SubSeq(s, 1, i - 1) \o SubSeq(s, i + 1, Len(s))

LmInit ==
    /\ CpIdle /\ McIdle /\ CoIdle /\ HgIdle /\ HpIdle /\ SrIdle /\ MgIdle /\ VlIdle /\ PnIdle /\ CdIdle
    /\ currentMarketConfig = "null"
    /\ currentMarket = "null"
    /\ marketProbabilities = <<>>
    /\ currentCorrelationAnalysis = <<>>
    /\ lmLoads = <<>>
    /\ lmServer = [m \in Markets |-> 0]
    /\ lmLast = <<>>

\* loadMarket(config) up to its first await.
loadMarket(config) ==
    /\ Len(lmLoads) < LmMaxLoads
    /\ currentMarketConfig' = config
    /\ lmLoads' = Append(lmLoads, [config |-> config, pc |-> "fetchMarket"])

\* onMarketSelect: a market of the menu is selected.
onMarketSelect ==
    /\ \E config \in Markets : loadMarket(config)
    /\ UNCHANGED <<currentMarket, marketProbabilities, currentCorrelationAnalysis,
                   lmServer, lmLast, LmOthers>>

\* The refresh button.
RefreshClick ==
    /\ currentMarketConfig # "null"
    /\ loadMarket(currentMarketConfig)
    /\ UNCHANGED <<currentMarket, marketProbabilities, currentCorrelationAnalysis,
                   lmServer, lmLast, LmOthers>>

\* parseMarketProbabilities(market, config) on the market the server holds.
parseMarketProbabilities(config) == [market |-> config, trades |-> lmServer[config]]

\* The fetch of a loadMarket call returns: the call goes on to its next await
\* or to its end.
FetchMarketReturns ==
    /\ \E i \in DOMAIN lmLoads, response \in FetchMarketResponses, hasApiKey \in BOOLEAN :
          /\ lmLoads[i].pc = "fetchMarket"
          /\ currentMarket' =
                IF response = "error" THEN currentMarket ELSE lmLoads[i].config
          /\ marketProbabilities' =
                IF response = "ok" THEN parseMarketProbabilities(lmLoads[i].config)
                ELSE marketProbabilities
          /\ lmLoads' =
                IF response = "ok" /\ hasApiKey
                THEN [lmLoads EXCEPT ![i].pc = "fetchPositions"]
                ELSE RemoveAt(lmLoads, i)
    /\ UNCHANGED <<currentMarketConfig, currentCorrelationAnalysis, lmServer, lmLast,
                   LmOthers>>

\* The fetch of the positions returns or fails, and the call ends.
FetchPositionsReturns ==
    /\ \E i \in DOMAIN lmLoads :
          /\ lmLoads[i].pc = "fetchPositions"
          /\ lmLoads' = RemoveAt(lmLoads, i)
    /\ UNCHANGED <<currentMarketConfig, currentMarket, marketProbabilities,
                   currentCorrelationAnalysis, lmServer, lmLast, LmOthers>>

\* updateCorrelationBetPanel (direction button, Calculate, scale field): the
\* analysis of marketProbabilities.pools is computed and kept.
updateCorrelationBetPanel ==
    /\ marketProbabilities # <<>>
    /\ \E canExec \in BOOLEAN :
          currentCorrelationAnalysis' =
              [costsFrom |-> marketProbabilities, canExecute |-> canExec]
    /\ UNCHANGED <<currentMarketConfig, currentMarket, marketProbabilities, lmLoads,
                   lmServer, lmLast, LmOthers>>

\* The legs a validation or an execution sends: amounts of the kept analysis,
\* answer ids of marketProbabilities, market id of currentMarket.
CorrelationLegsSent(op) ==
    [op |-> op,
     costsFrom |-> currentCorrelationAnalysis.costsFrom,
     loaded |-> marketProbabilities,
     market |-> currentMarket]

\* validateCorrelationBet.
validateCorrelationBet ==
    /\ currentCorrelationAnalysis # <<>>
    /\ currentCorrelationAnalysis.canExecute
    /\ lmLast' = CorrelationLegsSent("validateCorrelationBet")
    /\ UNCHANGED <<currentMarketConfig, currentMarket, marketProbabilities,
                   currentCorrelationAnalysis, lmLoads, lmServer, LmOthers>>

\* executeCorrelationBet, every placeBet resolving: the server applies the
\* trades, and the market is loaded again.
executeCorrelationBet ==
    /\ currentCorrelationAnalysis # <<>>
    /\ currentCorrelationAnalysis.canExecute
    /\ lmServer[currentMarket] < LmMaxTrades
    /\ lmLast' = CorrelationLegsSent("executeCorrelationBet")
    /\ lmServer' = [lmServer EXCEPT ![currentMarket] = @ + 1]
    /\ loadMarket(currentMarketConfig)
    /\ UNCHANGED <<currentMarket, marketProbabilities, currentCorrelationAnalysis,
                   LmOthers>>

\* executeCorrelationBet, the first placeBet throwing: nothing is loaded.
executeCorrelationBetThrows ==
    /\ currentCorrelationAnalysis # <<>>
    /\ currentCorrelationAnalysis.canExecute
    /\ lmLast' = CorrelationLegsSent("executeCorrelationBet (failed)")
    /\ UNCHANGED <<currentMarketConfig, currentMarket, marketProbabilities,
                   currentCorrelationAnalysis, lmLoads, lmServer, LmOthers>>

\* Another trader's bet moves the reserves the server holds for a market.
ServerTrade ==
    /\ \E m \in Markets :
          /\ lmServer[m] < LmMaxTrades
          /\ lmServer' = [lmServer EXCEPT ![m] = @ + 1]
    /\ UNCHANGED <<currentMarketConfig, currentMarket, marketProbabilities,
                   currentCorrelationAnalysis, lmLoads, lmLast, LmOthers>>

LmNext ==
    \/ onMarketSelect
    \/ RefreshClick
    \/ FetchMarketReturns
    \/ FetchPositionsReturns
    \/ updateCorrelationBetPanel
    \/ validateCorrelationBet
    \/ executeCorrelationBet
    \/ executeCorrelationBetThrows
    \/ ServerTrade

SpecLoad == LmInit /\ [][LmNext]_vars

\* C29: whenever no loadMarket call is in progress, currentMarket,
\* marketProbabilities and currentMarketConfig all refer to the same market, the
\* one most recently requested (currentMarketConfig is set at the start of every
\* call), after any interleaving of overlapping calls and after a load that
\* fails.
C29_OneMarketWhenSettled ==
    lmLoads = <<>> =>
        /\ currentMarket = currentMarketConfig
        /\ IF marketProbabilities = <<>> THEN currentMarketConfig = "null"
           ELSE marketProbabilities.market = currentMarketConfig

\* C21: every validation or execution of a correlation bet sends amounts
\* computed from the reserves of the market data loaded when it starts: never
\* amounts of a snapshot that loadMarket has since replaced.
C21_NoStaleSnapshot ==
    lmLast # <<>> => lmLast.costsFrom = lmLast.loaded

(***************************************************************************)
(* The bet panel's mode flags and its three dispatchers                    *)
(*                                                                         *)
(* One panel serves direct, marginal and conditional bets.  Which bet it   *)
(* holds is kept in selectedCellType, currentMarginalType and              *)
(* currentCondType; the openers clear different subsets of them.  pnOpened *)
(* records the kind of panel the user opened last and has not closed.      *)
(***************************************************************************)
\* updatePanelPreview: the preview function it calls.
updatePanelPreview(cellType, condType, marginalType) ==
    IF condType # "null" THEN "conditional"
    ELSE IF marginalType # "null" THEN "marginal"
    ELSE "direct"

\* executePanelBet: the execution function it calls.
executePanelBet(cellType, condType, marginalType) ==
    IF condType # "null" THEN "conditional"
    ELSE IF marginalType # "null" THEN "marginal"
    ELSE "direct"

\* Mutant of validateWithApi: a selected cell means a direct bet, whatever the
\* other flags.
validateWithApi_CellFirst(cellType, condType, marginalType) ==
    IF cellType # "null" THEN "direct"
    ELSE IF condType # "null" THEN "conditional"
    ELSE IF marginalType # "null" THEN "marginal"
    ELSE "none"

\* validateWithApi: the validation function it calls, if any.
validateWithApi(cellType, condType, marginalType) ==
    IF cellType # "null" /\ condType = "null" /\ marginalType = "null" THEN "direct"
    ELSE IF condType # "null" THEN "conditional"
    ELSE IF marginalType # "null" THEN "marginal"
    ELSE "none"

\* The record of a dispatcher's run: what it chose, and the panel that was open.
Dispatched(by, kind) == [by |-> by, kind |-> kind, opened |-> pnOpened]

\* The variables of the conditional and marginal panels that the mode flags do
\* not include.
PnRest ==
    <<marketPools, panelBetAmount, tradePlan, execPlan, execPlaced,
      mgPools, mgBetAmount, mgTradePlan, mgExec, mgPlaced,
      cpVars, mcVars, coVars, hpVars, srVars, vlVars, lmVars, cdVars>>

\* A market is loaded, no panel is open.
PnInit ==
    /\ CpIdle /\ McIdle /\ CoIdle /\ HgIdle /\ HpIdle /\ SrIdle /\ MgIdle /\ VlIdle /\ CdIdle
    /\ currentMarketConfig = "market_1"
    /\ currentMarket = "market_1"
    /\ marketProbabilities = [market |-> "market_1", trades |-> 0]
    /\ currentCorrelationAnalysis = <<>>
    /\ lmLoads = <<>> /\ lmServer = <<>> /\ lmLast = <<>>
    /\ selectedCellType = "null"
    /\ pnOpened = "none"
    /\ pnDispatch = <<>>

\* openBetPanel(cellType, cellElement): a click on a joint cell.
openBetPanel ==
    /\ marketProbabilities # <<>>
    /\ \E cellType \in Cells :
          /\ currentCondType' = "null"
          /\ currentMarginalType' = "null"
          /\ selectedCellType' = cellType
    /\ pnOpened' = "direct"
    /\ UNCHANGED <<currentBetDirection, pnDispatch, PnRest>>

\* openMarginalBetPanel(marginalType, cellElement): a click on a marginal cell.
\* selectedCellType is left as it is.
PanelOpenMarginalBetPanel ==
    /\ marketProbabilities # <<>>
    /\ \E marginalType \in MarginalTypes :
          currentMarginalType' = marginalType
    /\ currentCondType' = "null"
    /\ pnOpened' = "marginal"
    /\ UNCHANGED <<selectedCellType, currentBetDirection, pnDispatch, PnRest>>

\* openConditionalBetPanel(condType, cellElement): a click on a conditional
\* cell.  selectedCellType and currentMarginalType are left as they are.
PanelOpenConditionalBetPanel ==
    /\ marketProbabilities # <<>>
    /\ \E condType \in CondTypes :
          currentCondType' = condType
    /\ currentBetDirection' = "yes"
    /\ pnOpened' = "conditional"
    /\ UNCHANGED <<selectedCellType, currentMarginalType, pnDispatch, PnRest>>

\* closeBetPanel: the panel's close button.
PanelCloseBetPanel ==
    /\ pnOpened # "none"
    /\ selectedCellType' = "null"
    /\ currentCondType' = "null"
    /\ currentMarginalType' = "null"
    /\ pnOpened' = "none"
    /\ UNCHANGED <<currentBetDirection, pnDispatch, PnRest>>

\* A direction button: the direction is set and updatePanelPreview runs.
PanelDirectionClick ==
    /\ pnOpened # "none"
    /\ \E direction \in Directions : currentBetDirection' = direction
    /\ pnDispatch' = Dispatched("updatePanelPreview",
            updatePanelPreview(selectedCellType, currentCondType, currentMarginalType))
    /\ UNCHANGED <<selectedCellType, currentCondType, currentMarginalType, pnOpened,
                   PnRest>>

\* The Validate button: validateWithApi runs to its end.
PanelValidateClick ==
    /\ pnOpened # "none"
    /\ pnDispatch' = Dispatched("validateWithApi",
            validateWithApi(selectedCellType, currentCondType, currentMarginalType))
    /\ UNCHANGED <<selectedCellType, currentCondType, currentMarginalType,
                   currentBetDirection, pnOpened, PnRest>>

\* The Place Bet button, the execution completing: executePanelBet runs, every
\* bet is placed and the execution closes the panel.
PanelExecuteCompletes ==
    /\ pnOpened # "none"
    /\ pnDispatch' = Dispatched("executePanelBet",
            executePanelBet(selectedCellType, currentCondType, currentMarginalType))
    /\ selectedCellType' = "null"
    /\ currentCondType' = "null"
    /\ currentMarginalType' = "null"
    /\ pnOpened' = "none"
    /\ UNCHANGED <<currentBetDirection, PnRest>>

\* The Place Bet button, the execution failing (no API key, a bet rejected): the
\* panel stays open.
PanelExecuteFails ==
    /\ pnOpened # "none"
    /\ pnDispatch' = Dispatched("executePanelBet (failed)",
            executePanelBet(selectedCellType, currentCondType, currentMarginalType))
    /\ UNCHANGED <<selectedCellType, currentCondType, currentMarginalType,
                   currentBetDirection, pnOpened, PnRest>>

PnNext ==
    \/ openBetPanel
    \/ PanelOpenMarginalBetPanel
    \/ PanelOpenConditionalBetPanel
    \/ PanelCloseBetPanel
    \/ PanelDirectionClick
    \/ PanelValidateClick
    \/ PanelExecuteCompletes
    \/ PanelExecuteFails

SpecPanel == PnInit /\ [][PnNext]_vars

\* C28: after any sequence of panel openings, closings, direction toggles and
\* completed executions, updatePanelPreview, executePanelBet and validateWithApi
\* all act on the kind of bet whose panel was opened most recently and not yet
\* closed: each dispatcher that ran chose that kind, and while a panel is open
\* each of the three would choose it.
C28_DispatchersAgree ==
    /\ pnDispatch # <<>> => pnDispatch.kind = pnDispatch.opened
    /\ pnOpened # "none" =>
          /\ updatePanelPreview(selectedCellType, currentCondType, currentMarginalType)
                = pnOpened
          /\ executePanelBet(selectedCellType, currentCondType, currentMarginalType)
                = pnOpened
          /\ validateWithApi(selectedCellType, currentCondType, currentMarginalType)
                = pnOpened

\* validateWithApi has run on a conditional panel opened over a marginal panel
\* opened over a direct panel: the three flags are set together.
C28_Witness ==
    /\ selectedCellType # "null"
    /\ currentMarginalType # "null"
    /\ currentCondType # "null"
    /\ pnDispatch # <<>>
    /\ pnDispatch.by = "validateWithApi"
    /\ pnDispatch.kind = "conditional"
    /\ pnDispatch.opened = "conditional"

(***************************************************************************)
(* The market-configuration dialog                                         *)
(*                                                                         *)
(* The dialog fetches a market by slug, shows one select per answer and    *)
(* two label fields, and enables Save through validateConfigMapping, which *)
(* runs on the change of a select and on input in a label field.           *)
(***************************************************************************)
\* The value of a select: '' (-- Select cell --) or a cell.
CellOptions == {""} \cup Cells

\* The contents of a label field after trim().
LabelValues == {"", "A"}

\* The answers of a fetched market, by index.
AnswerIndexes == 1..4

\* What fetchMarketForConfig's fetch yields: a market with 4 unresolved answers,
\* or anything else (request failed, resolved market, answers not 4).
ConfigFetchResponses == {"ok", "error"}

\* validateConfigMapping: the disabled property it gives the Save button.
validateConfigMapping(selects, labelA, labelB) ==
    LET allSelected == \A i \in DOMAIN selects : selects[i] # ""
        selectedCells == {i \in DOMAIN selects : selects[i] # ""}
        uniqueCells == {selects[i] : i \in selectedCells}
        hasDuplicates == Cardinality(selectedCells) # Cardinality(uniqueCells)
        hasLabels == labelA # "" /\ labelB # ""
    IN IF hasDuplicates THEN TRUE
       ELSE ~(allSelected /\ hasLabels /\ ~hasDuplicates)

\* The truthTable saveConfigAndLoad builds, as the set of its (key, answer)
\* entries: a later select with the same value overwrites an earlier one.
TruthTable(selects) ==
    {<<selects[i], i>> : i \in {j \in DOMAIN selects :
                                   \A k \in DOMAIN selects : selects[k] = selects[j] => k <= j}}

CdInit ==
    /\ CpIdle /\ McIdle /\ CoIdle /\ HgIdle /\ HpIdle /\ SrIdle /\ MgIdle /\ VlIdle
    /\ LmIdle /\ PnIdle
    /\ configFetchedMarket = "null"
    /\ cdOpen = FALSE
    /\ cdStepMap = FALSE
    /\ cdSelects = <<>>
    /\ cdLabelA = ""
    /\ cdLabelB = ""
    /\ cdSaveDisabled = TRUE
    /\ cdFetches = {}
    /\ cdSaved = <<>>

\* openConfigDialog ('Configure new market' in the menu).
openConfigDialog ==
    /\ ~cdOpen
    /\ cdOpen' = TRUE
    /\ cdStepMap' = FALSE
    /\ cdSaveDisabled' = TRUE
    /\ configFetchedMarket' = "null"
    /\ cdSaved' = <<>>
    /\ UNCHANGED <<cdSelects, cdLabelA, cdLabelB, cdFetches, CdOthers>>

\* closeConfigDialog (close button, Cancel).
closeConfigDialog ==
    /\ cdOpen
    /\ cdOpen' = FALSE
    /\ configFetchedMarket' = "null"
    /\ UNCHANGED <<cdStepMap, cdSelects, cdLabelA, cdLabelB, cdSaveDisabled, cdFetches,
                   cdSaved, CdOthers>>

\* fetchMarketForConfig up to its await (Fetch button, Enter in the slug field).
fetchMarketForConfig ==
    /\ cdOpen
    /\ \E slug \in Markets :
          /\ slug \notin cdFetches
          /\ cdFetches' = cdFetches \cup {slug}
    /\ UNCHANGED <<configFetchedMarket, cdOpen, cdStepMap, cdSelects, cdLabelA, cdLabelB,
                   cdSaveDisabled, cdSaved, CdOthers>>

\* The fetch returns.  A market with 4 unresolved answers is kept and
\* showConfigMappingStep rebuilds the selects and clears the labels; anything
\* else shows an error.
FetchMarketForConfigReturns ==
    /\ \E slug \in cdFetches, response \in ConfigFetchResponses :
          /\ cdFetches' = cdFetches \ {slug}
          /\ IF response = "ok"
             THEN /\ configFetchedMarket' = slug
                  /\ cdSelects' = [i \in AnswerIndexes |-> ""]
                  /\ cdLabelA' = ""
                  /\ cdLabelB' = ""
                  /\ cdStepMap' = TRUE
             ELSE UNCHANGED <<configFetchedMarket, cdSelects, cdLabelA, cdLabelB,
                              cdStepMap>>
    /\ UNCHANGED <<cdOpen, cdSaveDisabled, cdSaved, CdOthers>>

\* The user changes a select: validateConfigMapping runs.
SelectChange ==
    /\ cdOpen /\ cdStepMap
    /\ \E i \in DOMAIN cdSelects, value \in CellOptions :
          /\ cdSelects[i] # value
          /\ cdSelects' = [cdSelects EXCEPT ![i] = value]
          /\ cdSaveDisabled' = validateConfigMapping(cdSelects', cdLabelA, cdLabelB)
    /\ UNCHANGED <<configFetchedMarket, cdOpen, cdStepMap, cdLabelA, cdLabelB, cdFetches,
                   cdSaved, CdOthers>>

\* The user types in a label field: validateConfigMapping runs.
LabelInput ==
    /\ cdOpen /\ cdStepMap
    /\ \E labelA \in LabelValues, labelB \in LabelValues :
          /\ (labelA = cdLabelA) # (labelB = cdLabelB)
          /\ cdLabelA' = labelA
          /\ cdLabelB' = labelB
          /\ cdSaveDisabled' = validateConfigMapping(cdSelects, labelA, labelB)
    /\ UNCHANGED <<configFetchedMarket, cdOpen, cdStepMap, cdSelects, cdFetches, cdSaved,
                   CdOthers>>

\* saveConfigAndLoad (the Save button, when enabled) with a fetched market: the
\* configuration is stored and the dialog closed.
saveConfigAndLoad ==
    /\ cdOpen
    /\ ~cdSaveDisabled
    /\ configFetchedMarket # "null"
    /\ cdSaved' = [truthTable |-> TruthTable(cdSelects)]
    /\ cdOpen' = FALSE
    /\ configFetchedMarket' = "null"
    /\ UNCHANGED <<cdStepMap, cdSelects, cdLabelA, cdLabelB, cdSaveDisabled, cdFetches,
                   CdOthers>>

CdNext ==
    \/ openConfigDialog
    \/ closeConfigDialog
    \/ fetchMarketForConfig
    \/ FetchMarketForConfigReturns
    \/ SelectChange
    \/ LabelInput
    \/ saveConfigAndLoad

SpecConfig == CdInit /\ [][CdNext]_vars

\* Each of the four answers is assigned a cell, no cell twice, and both labels
\* are filled in.
MappingComplete ==
    /\ DOMAIN cdSelects = AnswerIndexes
    /\ \A i \in AnswerIndexes : cdSelects[i] \in Cells
    /\ \A i, j \in AnswerIndexes : cdSelects[i] = cdSelects[j] => i = j
    /\ cdLabelA # "" /\ cdLabelB # ""

\* C30: in every reachable state of the dialog the Save button is enabled only
\* if each of the four answers of the fetched market is assigned a cell, no cell
\* is assigned twice and both labels are non-empty; and every configuration that
\* saveConfigAndLoad stored has a truthTable mapping the four cells one-to-one
\* onto the four answers.
C30_SaveOnlyWhenComplete ==
    /\ (cdOpen /\ ~cdSaveDisabled) => MappingComplete
    /\ cdSaved # <<>> =>
          /\ {e[1] : e \in cdSaved.truthTable} = Cells
          /\ {e[2] : e \in cdSaved.truthTable} = AnswerIndexes
          /\ Cardinality(cdSaved.truthTable) = Cardinality(Cells)

====
